---- MODULE Spec2Model ----
(***************************************************************************)
(* Trip search of the hyperloop-nc front end: SearchService over the       *)
(* static transit data (stations, line schedules, fares), its statistics   *)
(* of a result list, and the data fetches of the four views.               *)
(*                                                                         *)
(* Six specifications share the module: Spec (searchWithCriteria over a    *)
(* data set), StatsSpec (getSearchStatistics and the duration formatters   *)
(* over result lists and minute counts), ViewSpec (the life cycle of the   *)
(* search, stations, prices and schedules views), SchedulesSpec (the       *)
(* schedules view over a family of schedule files), PopularSpec            *)
(* (getPopularDestinations) and DistanceSpec (calculateDistance).  Each    *)
(* leaves the variables of the others at rest.                             *)
(*                                                                         *)
(* Text is modelled as a sequence of one-character strings, so that the    *)
(* string operations of the code (split, parseInt, Number, localeCompare,  *)
(* template literals) are computed as the code computes them.              *)
(* A missing optional text field (undefined) is the empty sequence: every  *)
(* use of such a field in the code is a truthiness test, which undefined   *)
(* and '' both fail.                                                       *)
(***************************************************************************)
EXTENDS Integers, Sequences, FiniteSets, TLC

VARIABLES stations, schedules, prices, criteria, response,
          resultList, statistics, totalMinutes, formatted,
          viewFiles, searchView, stationsView, pricesView, schedulesView,
          destinationsQuery, popularDestinations, points, distance

\* the data store and one caller of searchWithCriteria
searchVars == <<stations, schedules, prices, criteria, response>>

\* one caller of getSearchStatistics and of the two duration formatters
statsVars == <<resultList, statistics, totalMinutes, formatted>>

\* the four views that fetch data
viewVars == <<viewFiles, searchView, stationsView, pricesView, schedulesView>>

\* one caller of getPopularDestinations and one of calculateDistance
callVars == <<destinationsQuery, popularDestinations, points, distance>>

vars == <<searchVars, statsVars, viewVars, callVars>>

-----------------------------------------------------------------------------
(* Text primitives                                                         *)

Digits == <<"0", "1", "2", "3", "4", "5", "6", "7", "8", "9">>

DigitChar(d) == Digits[d + 1]

IsDigit(c) == \E d \in 0..9 : Digits[d + 1] = c

DigitVal(c) == CHOOSE d \in 0..9 : Digits[d + 1] = c

\* `${n}` for a non-negative integer n: decimal digits, no padding
RECURSIVE NatText(_)
NatText(n) == IF n < 10 THEN <<DigitChar(n)>>
              ELSE NatText(n \div 10) \o <<DigitChar(n % 10)>>

\* String.prototype.split(sep) for a one-character separator
RECURSIVE Split(_, _)
Split(s, sep) ==
    IF \A k \in 1..Len(s) : s[k] # sep THEN <<s>>
    ELSE LET k == CHOOSE i \in 1..Len(s) :
                      s[i] = sep /\ \A j \in 1..(i - 1) : s[j] # sep
         IN  <<SubSeq(s, 1, k - 1)>> \o Split(SubSeq(s, k + 1, Len(s)), sep)

\* the longest prefix of s made of digits
RECURSIVE DigitPrefix(_)
DigitPrefix(s) == IF s = <<>> \/ ~IsDigit(Head(s)) THEN <<>>
                  ELSE <<Head(s)>> \o DigitPrefix(Tail(s))

RECURSIVE DigitsValue(_)
DigitsValue(s) == IF s = <<>> THEN 0
                  ELSE 10 * DigitsValue(SubSeq(s, 1, Len(s) - 1)) + DigitVal(s[Len(s)])

\* parseInt(s) where s starts with a digit (the "HH" part of a time)
parseInt(s) == DigitsValue(DigitPrefix(s))

\* Number(s) where s is made of digits only (Number('') is 0)
Number(s) == DigitsValue(s)

\* rank of a character in the comparison of time texts
CharRank(c) == IF IsDigit(c) THEN DigitVal(c) + 1 ELSE 0

\* a.localeCompare(b): negative, zero or positive
RECURSIVE localeCompare(_, _)
localeCompare(a, b) ==
    IF a = <<>> /\ b = <<>> THEN 0
    ELSE IF a = <<>> THEN -1
    ELSE IF b = <<>> THEN 1
    ELSE IF CharRank(Head(a)) < CharRank(Head(b)) THEN -1
    ELSE IF CharRank(Head(a)) > CharRank(Head(b)) THEN 1
    ELSE localeCompare(Tail(a), Tail(b))

\* truthiness of an optional text field
Truthy(s) == s # <<>>

NoTime == <<>>

DefaultTime == <<"2", "3", ":", "5", "9">>

NA == <<"N", "/", "A">>

-----------------------------------------------------------------------------
(* Array helpers                                                           *)

\* Array.prototype.findIndex / find, given for each element whether the
\* callback accepts it: the first accepted index, 1-based; 0 stands for -1
\* (for find: undefined)
findIndex(hits) ==
    IF \E i \in 1..Len(hits) : hits[i]
    THEN CHOOSE i \in 1..Len(hits) : hits[i] /\ \A j \in 1..(i - 1) : ~hits[j]
    ELSE 0

-----------------------------------------------------------------------------
(* SearchService (search.service.ts)                                       *)

\* Array.prototype.find on the stops of a schedule: the first stop of the
\* station, or NoStop for undefined
NoStop == [station_id |-> "", departure_time |-> NoTime, arrival_time |-> NoTime]

findStop(stops, stationId) ==
    LET i == findIndex([k \in 1..Len(stops) |-> stops[k].station_id = stationId])
    IN  IF i = 0 THEN NoStop ELSE stops[i]

\* validSchedule without the order check
validScheduleAnyOrder(schedule, originId, destinationId) ==
    /\ findIndex([k \in 1..Len(schedule.stops) |->
                          schedule.stops[k].station_id = originId]) # 0
    /\ findIndex([k \in 1..Len(schedule.stops) |->
                          schedule.stops[k].station_id = destinationId]) # 0

\* validSchedule with <= for <
validScheduleOrEqual(schedule, originId, destinationId) ==
    LET originStopIndex ==
            findIndex([k \in 1..Len(schedule.stops) |->
                          schedule.stops[k].station_id = originId])
        destinationStopIndex ==
            findIndex([k \in 1..Len(schedule.stops) |->
                          schedule.stops[k].station_id = destinationId])
    IN  /\ originStopIndex # 0
        /\ destinationStopIndex # 0
        /\ originStopIndex <= destinationStopIndex

\* the filter callback of findConnectingSchedules
validSchedule(schedule, originId, destinationId) ==
    LET originStopIndex ==
            findIndex([k \in 1..Len(schedule.stops) |->
                          schedule.stops[k].station_id = originId])
        destinationStopIndex ==
            findIndex([k \in 1..Len(schedule.stops) |->
                          schedule.stops[k].station_id = destinationId])
    IN  /\ originStopIndex # 0
        /\ destinationStopIndex # 0
        /\ originStopIndex < destinationStopIndex

findConnectingSchedules(lineSchedules, originId, destinationId) ==
    LET allSchedules[k \in 0..Len(lineSchedules)] ==
            IF k = 0 THEN <<>>
            ELSE allSchedules[k - 1] \o
                 SelectSeq(lineSchedules[k].schedules,
                           LAMBDA schedule : validSchedule(schedule, originId, destinationId))
    IN  allSchedules[Len(lineSchedules)]

MorningStart == 6
MorningEnd == 12
AfternoonStart == 12
AfternoonEnd == 18
EveningStart == 18
EveningEnd == 22

timeRanges ==
    [morning   |-> [start |-> MorningStart, end |-> MorningEnd],
     afternoon |-> [start |-> AfternoonStart, end |-> AfternoonEnd],
     evening   |-> [start |-> EveningStart, end |-> EveningEnd]]

\* matchesCriteria reading the first stop of the schedule, not the stop of
\* the origin
matchesCriteriaFirstStop(result, crit) ==
    IF crit.timePreference # "" /\ crit.timePreference # "any"
    THEN LET firstStop == IF Len(result.schedule.stops) >= 1
                          THEN result.schedule.stops[1] ELSE NoStop
         IN  IF Truthy(firstStop.departure_time)
             THEN LET hour == parseInt(Split(firstStop.departure_time, ":")[1])
                  IN  IF crit.timePreference \in DOMAIN timeRanges
                      THEN LET range == timeRanges[crit.timePreference]
                           IN  ~(hour < range.start \/ hour >= range.end)
                      ELSE TRUE
             ELSE TRUE
    ELSE TRUE

\* matchesCriteria dropping, under a time filter, the results whose origin
\* stop has no departure time
matchesCriteriaTimedOnly(result, crit) ==
    IF crit.timePreference # "" /\ crit.timePreference # "any"
    THEN LET firstStop == findStop(result.schedule.stops, crit.originId)
         IN  IF Truthy(firstStop.departure_time)
             THEN LET hour == parseInt(Split(firstStop.departure_time, ":")[1])
                  IN  IF crit.timePreference \in DOMAIN timeRanges
                      THEN LET range == timeRanges[crit.timePreference]
                           IN  ~(hour < range.start \/ hour >= range.end)
                      ELSE TRUE
             ELSE FALSE
    ELSE TRUE

\* criteria.timePreference is "" when absent
matchesCriteria(result, crit) ==
    IF crit.timePreference # "" /\ crit.timePreference # "any"
    THEN LET firstStop == findStop(result.schedule.stops, crit.originId)
         IN  IF Truthy(firstStop.departure_time)
             THEN LET hour == parseInt(Split(firstStop.departure_time, ":")[1])
                  IN  IF crit.timePreference \in DOMAIN timeRanges
                      THEN LET range == timeRanges[crit.timePreference]
                           IN  ~(hour < range.start \/ hour >= range.end)
                      ELSE TRUE
             ELSE TRUE
    ELSE TRUE

\* the departure time sortByRelevance reads for a result
relevanceTime(result) ==
    IF Len(result.schedule.stops) >= 1 /\ Truthy(result.schedule.stops[1].departure_time)
    THEN result.schedule.stops[1].departure_time
    ELSE DefaultTime

sortByRelevance(a, b) == localeCompare(relevanceTime(a), relevanceTime(b))

\* Array.prototype.sort with sortByRelevance. The sort is stable: each result
\* in turn is placed before the first one that compares greater than it
insertSorted(sorted, x) ==
    LET p == IF \E i \in 1..Len(sorted) : sortByRelevance(sorted[i], x) > 0
             THEN CHOOSE i \in 1..Len(sorted) :
                      /\ sortByRelevance(sorted[i], x) > 0
                      /\ \A j \in 1..(i - 1) : ~(sortByRelevance(sorted[j], x) > 0)
             ELSE Len(sorted) + 1
    IN  SubSeq(sorted, 1, p - 1) \o <<x>> \o SubSeq(sorted, p, Len(sorted))

sortResults(results) ==
    LET f[k \in 0..Len(results)] ==
            IF k = 0 THEN <<>> ELSE insertSorted(f[k - 1], results[k])
    IN  f[Len(results)]

\* parseTime(t).getTime(), in milliseconds from the start of the day
parseTime(timeString) ==
    LET parts == Split(timeString, ":")
        hours == Number(parts[1])
        minutes == Number(parts[2])
    IN  (hours * 60 + minutes) * 60 * 1000

\* the text of a number of minutes (lines 164-170)
durationText(diffMinutes) ==
    LET hours == diffMinutes \div 60
        minutes == diffMinutes % 60
    IN  IF hours > 0
        THEN NatText(hours) \o <<"h">> \o
             (IF minutes > 0 THEN <<" ">> \o NatText(minutes) \o <<"m", "i", "n">>
              ELSE <<>>)
        ELSE NatText(minutes) \o <<"m", "i", "n">>

\* calculateTripDuration between the first and the last stop of the schedule
calculateTripDurationEnds(schedule, originId, destinationId) ==
    LET originStop == IF Len(schedule.stops) >= 1 THEN schedule.stops[1] ELSE NoStop
        destinationStop == IF Len(schedule.stops) >= 1
                           THEN schedule.stops[Len(schedule.stops)] ELSE NoStop
    IN  IF ~Truthy(originStop.departure_time) \/ ~Truthy(destinationStop.arrival_time)
        THEN NA
        ELSE LET startTime == parseTime(originStop.departure_time)
                 endTime == parseTime(destinationStop.arrival_time)
             IN  IF endTime - startTime < 0
                 THEN NA
                 ELSE durationText((endTime - startTime) \div (1000 * 60))

\* calculateTripDuration wrapping a negative difference over midnight
calculateTripDurationWrapped(schedule, originId, destinationId) ==
    LET originStop == findStop(schedule.stops, originId)
        destinationStop == findStop(schedule.stops, destinationId)
    IN  IF ~Truthy(originStop.departure_time) \/ ~Truthy(destinationStop.arrival_time)
        THEN NA
        ELSE LET startTime == parseTime(originStop.departure_time)
                 endTime == parseTime(destinationStop.arrival_time)
             IN  IF endTime - startTime < 0
                 THEN durationText((endTime - startTime) \div (1000 * 60) + 24 * 60)
                 ELSE durationText((endTime - startTime) \div (1000 * 60))

calculateTripDuration(schedule, originId, destinationId) ==
    LET originStop == findStop(schedule.stops, originId)
        destinationStop == findStop(schedule.stops, destinationId)
    IN  IF ~Truthy(originStop.departure_time) \/ ~Truthy(destinationStop.arrival_time)
        THEN NA
        ELSE LET startTime == parseTime(originStop.departure_time)
                 endTime == parseTime(destinationStop.arrival_time)
             IN  IF endTime - startTime < 0
                 THEN NA
                 ELSE durationText((endTime - startTime) \div (1000 * 60))

\* Array.prototype.find on the station collection: the index, 0 if absent
stationIndex(stationList, id) ==
    findIndex([k \in 1..Len(stationList) |-> stationList[k].id = id])

\* priceIndex matching the origin only
priceIndexByOrigin(priceList, originId, destinationId) ==
    findIndex([k \in 1..Len(priceList) |-> priceList[k].origin_station_id = originId])

\* priceIndex accepting the row of the reversed pair as well
priceIndexEitherWay(priceList, originId, destinationId) ==
    findIndex([k \in 1..Len(priceList) |->
                  \/ /\ priceList[k].origin_station_id = originId
                     /\ priceList[k].destination_station_id = destinationId
                  \/ /\ priceList[k].origin_station_id = destinationId
                     /\ priceList[k].destination_station_id = originId])

priceIndex(priceList, originId, destinationId) ==
    findIndex([k \in 1..Len(priceList) |->
                  /\ priceList[k].origin_station_id = originId
                  /\ priceList[k].destination_station_id = destinationId])

\* the map callback of searchWithCriteria, on the three fetched collections.
\* The distance field of a result (coordinates, trigonometry) is left out.
searchResults(stationList, lineSchedules, priceList, crit) ==
    LET o == stationIndex(stationList, crit.originId)
        d == stationIndex(stationList, crit.destinationId)
        relevantSchedules ==
            findConnectingSchedules(lineSchedules, crit.originId, crit.destinationId)
        p == priceIndex(priceList, crit.originId, crit.destinationId)
        mapped == [k \in 1..Len(relevantSchedules) |->
                     [origin      |-> stationList[o],
                      destination |-> stationList[d],
                      schedule    |-> relevantSchedules[k],
                      price       |-> priceList[p].prices,
                      duration    |-> calculateTripDuration(relevantSchedules[k],
                                          crit.originId, crit.destinationId)]]
    IN  IF o = 0 \/ d = 0 THEN <<>>
        ELSE IF p = 0 THEN <<>>
        ELSE sortResults(SelectSeq(mapped, LAMBDA result : matchesCriteria(result, crit)))

\* the fetched line schedules after a call, had sort been applied to the
\* schedules of each line in place
lineSchedulesAfterSortInPlace(lineSchedules, crit) ==
    [k \in 1..Len(lineSchedules) |->
        LET trips == lineSchedules[k].schedules
            sorted == sortResults([i \in 1..Len(trips) |-> [schedule |-> trips[i]]])
        IN  [line_id   |-> lineSchedules[k].line_id,
             schedules |-> [i \in 1..Len(sorted) |-> sorted[i].schedule]]]

\* the fetched line schedules after a call of searchWithCriteria:
\* findConnectingSchedules filters each line into a new array and pushes into
\* an array of its own; map and filter return new arrays, and sort reorders
\* the array filter returned.  No statement writes to the fetched arrays.
lineSchedulesAfterSearch(lineSchedules, crit) == lineSchedules

\* searchWithCriteria without the early return on a missing id
searchWithCriteriaAlwaysFetch(stationList, lineSchedules, priceList, crit, fetchOk) ==
    IF ~fetchOk
    THEN [kind |-> "error", results |-> <<>>]
    ELSE [kind |-> "value",
          results |-> searchResults(stationList, lineSchedules, priceList, crit)]

\* what the observable returned by searchWithCriteria delivers: a value, or
\* the error of a failed fetch (combineLatest of the three http reads)
searchWithCriteria(stationList, lineSchedules, priceList, crit, fetchOk) ==
    IF crit.originId = "" \/ crit.destinationId = ""
    THEN [kind |-> "value", results |-> <<>>]
    ELSE IF ~fetchOk
    THEN [kind |-> "error", results |-> <<>>]
    ELSE [kind |-> "value",
          results |-> searchResults(stationList, lineSchedules, priceList, crit)]

-----------------------------------------------------------------------------
(* SearchService.getSearchStatistics and its helpers                       *)

\* String.prototype.includes for one character
includes(s, c) == \E k \in 1..Len(s) : s[k] = c

\* s.replace(pat, ''): the first occurrence of pat is removed
removeFirst(s, pat) ==
    LET at(i) == i + Len(pat) - 1 <= Len(s) /\ SubSeq(s, i, i + Len(pat) - 1) = pat
    IN  IF \E i \in 1..Len(s) : at(i)
        THEN LET i == CHOOSE i \in 1..Len(s) : at(i) /\ \A j \in 1..(i - 1) : ~at(j)
             IN  SubSeq(s, 1, i - 1) \o SubSeq(s, i + Len(pat), Len(s))
        ELSE s

\* String.prototype.trim, for blanks
RECURSIVE trim(_)
trim(s) == IF s # <<>> /\ Head(s) = " " THEN trim(Tail(s))
           ELSE IF s # <<>> /\ s[Len(s)] = " " THEN trim(SubSeq(s, 1, Len(s) - 1))
           ELSE s

\* parseDurationToMinutes reading only the hours of a text with an 'h'
parseDurationToMinutesHoursOnly(text) ==
    IF includes(text, "h")
    THEN parseInt(Split(text, "h")[1]) * 60
    ELSE parseInt(removeFirst(text, <<"m", "i", "n">>))

\* parseDurationToMinutes on a text that starts with a number
parseDurationToMinutes(text) ==
    IF includes(text, "h")
    THEN LET parts == Split(text, "h")
             hours == parseInt(parts[1])
             minutesPart == IF Len(parts) >= 2
                            THEN trim(removeFirst(parts[2], <<"m", "i", "n">>))
                            ELSE <<>>
             minutes == IF Truthy(minutesPart) THEN parseInt(minutesPart) ELSE 0
         IN  hours * 60 + minutes
    ELSE parseInt(removeFirst(text, <<"m", "i", "n">>))

\* formatDuration printing the minutes after the hours also when they are 0
formatDurationAlwaysMinutes(minutesTotal) ==
    LET hours == minutesTotal \div 60
        minutes == minutesTotal % 60
    IN  IF hours > 0
        THEN NatText(hours) \o <<"h">> \o <<" ">> \o NatText(minutes) \o <<"m", "i", "n">>
        ELSE NatText(minutes) \o <<"m", "i", "n">>

\* formatDuration of a non-negative whole number of minutes
formatDuration(minutesTotal) ==
    LET hours == minutesTotal \div 60
        minutes == minutesTotal % 60
    IN  IF hours > 0
        THEN NatText(hours) \o <<"h">> \o
             (IF minutes > 0 THEN <<" ">> \o NatText(minutes) \o <<"m", "i", "n">>
              ELSE <<>>)
        ELSE NatText(minutes) \o <<"m", "i", "n">>

\* Math.round(num / den) for num >= 0 and den > 0: halves go up
MathRound(num, den) == (2 * num + den) \div (2 * den)

\* a minimum that starts at Infinity: inf tells whether it still is Infinity
Infinity == [inf |-> TRUE, n |-> 0]

MathMin(a, price) == IF a.inf \/ price < a.n THEN [inf |-> FALSE, n |-> price] ELSE a

MathMax(a, price) == IF price > a THEN price ELSE a

\* the initial accumulator of the reduce
statsStart ==
    [routeCount |-> 0, totalDuration |-> 0, minPrice |-> Infinity, maxPrice |-> 0,
     morningCount |-> 0, afternoonCount |-> 0, eveningCount |-> 0]

\* the band a result is counted in by the reduce callback, "" for none
countedBand(result) ==
    LET firstStop == IF Len(result.schedule.stops) >= 1
                     THEN result.schedule.stops[1] ELSE NoStop
    IN  IF Truthy(firstStop.departure_time)
        THEN LET hour == parseInt(Split(firstStop.departure_time, ":")[1])
             IN  IF hour >= 6 /\ hour < 12 THEN "morning"
                 ELSE IF hour >= 12 /\ hour < 18 THEN "afternoon"
                 ELSE IF hour >= 18 /\ hour < 22 THEN "evening"
                 ELSE ""
        ELSE ""

\* statsStep counting a route only when its duration is defined
statsStepDefinedOnly(acc, result) ==
    LET defined == Truthy(result.duration) /\ result.duration # NA
        band == countedBand(result)
    IN  [routeCount     |-> acc.routeCount + (IF defined THEN 1 ELSE 0),
         totalDuration  |-> acc.totalDuration +
                            (IF defined THEN parseDurationToMinutes(result.duration) ELSE 0),
         minPrice       |-> MathMin(acc.minPrice, result.price.third_class),
         maxPrice       |-> MathMax(acc.maxPrice, result.price.third_class),
         morningCount   |-> acc.morningCount + (IF band = "morning" THEN 1 ELSE 0),
         afternoonCount |-> acc.afternoonCount + (IF band = "afternoon" THEN 1 ELSE 0),
         eveningCount   |-> acc.eveningCount + (IF band = "evening" THEN 1 ELSE 0)]

\* statsStep taking the price range from the second class
statsStepSecondClass(acc, result) ==
    LET defined == Truthy(result.duration) /\ result.duration # NA
        band == countedBand(result)
    IN  [routeCount     |-> acc.routeCount + 1,
         totalDuration  |-> acc.totalDuration +
                            (IF defined THEN parseDurationToMinutes(result.duration) ELSE 0),
         minPrice       |-> MathMin(acc.minPrice, result.price.second_class),
         maxPrice       |-> MathMax(acc.maxPrice, result.price.second_class),
         morningCount   |-> acc.morningCount + (IF band = "morning" THEN 1 ELSE 0),
         afternoonCount |-> acc.afternoonCount + (IF band = "afternoon" THEN 1 ELSE 0),
         eveningCount   |-> acc.eveningCount + (IF band = "evening" THEN 1 ELSE 0)]

\* the reduce callback of getSearchStatistics
statsStep(acc, result) ==
    LET defined == Truthy(result.duration) /\ result.duration # NA
        band == countedBand(result)
    IN  [routeCount     |-> acc.routeCount + 1,
         totalDuration  |-> acc.totalDuration +
                            (IF defined THEN parseDurationToMinutes(result.duration) ELSE 0),
         minPrice       |-> MathMin(acc.minPrice, result.price.third_class),
         maxPrice       |-> MathMax(acc.maxPrice, result.price.third_class),
         morningCount   |-> acc.morningCount + (IF band = "morning" THEN 1 ELSE 0),
         afternoonCount |-> acc.afternoonCount + (IF band = "afternoon" THEN 1 ELSE 0),
         eveningCount   |-> acc.eveningCount + (IF band = "evening" THEN 1 ELSE 0)]

\* results.reduce(statsStep, statsStart)
statsReduce(results) ==
    LET f[k \in 0..Len(results)] ==
            IF k = 0 THEN statsStart ELSE statsStep(f[k - 1], results[k])
    IN  f[Len(results)]

\* the text of Math.round(0 / 0) minutes
NaNmin == <<"N", "a", "N", "m", "i", "n">>

\* formatDuration(Math.round(totalDuration / routeCount)); 0 / 0 is NaN,
\* which formatDuration prints as "NaNmin"
averageDuration(stats) ==
    IF stats.routeCount = 0 THEN NaNmin
    ELSE formatDuration(MathRound(stats.totalDuration, stats.routeCount))

\* getSearchStatistics without the early return on the empty list
getSearchStatisticsNoGuard(results) ==
    LET stats == statsReduce(results)
    IN  [totalRoutes      |-> stats.routeCount,
         averageDuration  |-> averageDuration(stats),
         priceRange       |-> [min |-> IF stats.minPrice.inf THEN 0 ELSE stats.minPrice.n,
                               max |-> stats.maxPrice],
         timeDistribution |-> [morning   |-> stats.morningCount,
                               afternoon |-> stats.afternoonCount,
                               evening   |-> stats.eveningCount]]

getSearchStatistics(results) ==
    IF Len(results) = 0
    THEN [totalRoutes      |-> 0,
          averageDuration  |-> <<"0", "m", "i", "n">>,
          priceRange       |-> [min |-> 0, max |-> 0],
          timeDistribution |-> [morning |-> 0, afternoon |-> 0, evening |-> 0]]
    ELSE LET stats == statsReduce(results)
         IN  [totalRoutes      |-> stats.routeCount,
              averageDuration  |-> averageDuration(stats),
              priceRange       |-> [min |-> IF stats.minPrice.inf THEN 0
                                            ELSE stats.minPrice.n,
                                    max |-> stats.maxPrice],
              timeDistribution |-> [morning   |-> stats.morningCount,
                                    afternoon |-> stats.afternoonCount,
                                    evening   |-> stats.eveningCount]]

-----------------------------------------------------------------------------
(* The second SearchService ('search.service 2.ts')                        *)

\* the filter callback of filterByCriteria
filterByCriteria(result, crit) ==
    IF crit.timePreference # "" /\ crit.timePreference # "any"
    THEN LET firstStop == IF Len(result.schedule.stops) >= 1
                          THEN result.schedule.stops[1] ELSE NoStop
         IN  IF Truthy(firstStop.departure_time)
             THEN LET hour == parseInt(Split(firstStop.departure_time, ":")[1])
                  IN  CASE crit.timePreference = "morning" -> ~(hour < 6 \/ hour >= 12)
                        [] crit.timePreference = "afternoon" -> ~(hour < 12 \/ hour >= 18)
                        [] crit.timePreference = "evening" -> ~(hour < 18 \/ hour >= 24)
                        [] OTHER -> TRUE
             ELSE TRUE
    ELSE TRUE

-----------------------------------------------------------------------------
(* The data sets and calls explored                                        *)

MaxStops == 3

\* "HH:MM", zero-padded
TimeText(h, m) ==
    <<DigitChar(h \div 10), DigitChar(h % 10), ":", DigitChar(m \div 10), DigitChar(m % 10)>>

\* S3 occurs in schedules and fares but is no station of the collection
StopIds == {"S1", "S2", "S3"}

StationList == <<[id |-> "S1"], [id |-> "S2"]>>

CriteriaIds == {"", "S1", "S2", "S3"}

TimePreferences == {"", "any", "morning", "afternoon", "evening"}

IdRank(id) == CASE id = "S1" -> 1 [] id = "S2" -> 2 [] id = "S3" -> 3

Fare(o, d) ==
    [origin_station_id |-> o, destination_station_id |-> d,
     prices |-> [first_class  |-> 300 + 10 * IdRank(o) + IdRank(d),
                 second_class |-> 200 + 10 * IdRank(o) + IdRank(d),
                 third_class  |-> 100 + 10 * IdRank(o) + IdRank(d)]]

AllFares ==
    <<Fare("S1", "S1"), Fare("S1", "S2"), Fare("S1", "S3"),
      Fare("S2", "S1"), Fare("S2", "S2"), Fare("S2", "S3"),
      Fare("S3", "S1"), Fare("S3", "S2"), Fare("S3", "S3")>>

FareTables == {<<>>, <<Fare("S1", "S2")>>, AllFares}

Stop(id, dep, arr) == [station_id |-> id, departure_time |-> dep, arrival_time |-> arr]

OneLine(schedule) == <<[line_id |-> "L1", schedules |-> <<schedule>>]>>

\* any stop sequence over the three ids, on a fixed timetable: stop k arrives
\* at (8+k):50 and departs at (9+k):00; the first stop has no arrival and the
\* last one no departure
PatternSchedule(ids) ==
    [trip_id |-> "T1",
     stops   |-> [k \in 1..Len(ids) |->
                    Stop(ids[k],
                         IF k = Len(ids) THEN NoTime ELSE TimeText(9 + k, 0),
                         IF k = 1 THEN NoTime ELSE TimeText(8 + k, 50))]]

StopPatterns == UNION {[1..n -> StopIds] : n \in 1..MaxStops}

\* two lines of one trip each, S1 to S2 directly or after a first stop at S3,
\* every stop with one of three time pairs
StopTimes ==
    {[dep |-> TimeText(8, 0), arr |-> TimeText(7, 50)],
     [dep |-> TimeText(14, 30), arr |-> TimeText(14, 20)],
     [dep |-> NoTime, arr |-> TimeText(10, 15)]}

PairPatterns == {<<"S1", "S2">>, <<"S3", "S1", "S2">>}

PairSchedules(tripId) ==
    UNION {{[trip_id |-> tripId,
             stops   |-> [k \in 1..Len(ids) |-> Stop(ids[k], tt[k].dep, tt[k].arr)]] :
               tt \in [1..Len(ids) -> StopTimes]} : ids \in PairPatterns}

\* one trip S1 to S2, alone or between a first and a last stop at S3, with
\* any departure from S1 and a choice of arrivals at S2
DepartureTimes ==
    {TimeText(h, m) : h \in 0..23, m \in {0, 30, 59}} \cup {NoTime}

ArrivalTimes ==
    {TimeText(0, 10), TimeText(8, 0), TimeText(8, 45), TimeText(9, 0),
     TimeText(10, 15), TimeText(14, 30), TimeText(18, 5), TimeText(23, 59), NoTime}

TimedSchedules(dep, arr) ==
    {[trip_id |-> "T1",
      stops   |-> <<Stop("S1", dep, NoTime), Stop("S2", NoTime, arr)>>],
     [trip_id |-> "T1",
      stops   |-> <<Stop("S3", TimeText(9, 0), NoTime),
                    Stop("S1", dep, TimeText(9, 20)),
                    Stop("S2", TimeText(13, 0), arr),
                    Stop("S3", NoTime, TimeText(20, 0))>>]}

-----------------------------------------------------------------------------
(* The static files read by the views                                      *)

Northbound == <<"n", "o", "r", "t", "h", "b", "o", "u", "n", "d">>

Southbound == <<"s", "o", "u", "t", "h", "b", "o", "u", "n", "d">>

Outbound == <<"o", "u", "t", "b", "o", "u", "n", "d">>

Inbound == <<"i", "n", "b", "o", "u", "n", "d">>

ToLifou == <<"t", "o", "-", "l", "i", "f", "o", "u">>

FromLifou == <<"f", "r", "o", "m", "-", "l", "i", "f", "o", "u">>

ViewStationIds == {"S1", "S2", "S3", "S4"}

\* the stations file is not in name order; S4 is on an island
ViewStations ==
    <<[id |-> "S2", name_fr |-> <<"B">>, island_fr |-> "Grande-Terre"],
      [id |-> "S1", name_fr |-> <<"A">>, island_fr |-> "Grande-Terre"],
      [id |-> "S4", name_fr |-> <<"C">>, island_fr |-> "Lifou"]>>

ViewLines ==
    <<[id |-> "L1", station_ids |-> <<"S1", "S2">>],
      [id |-> "L2", station_ids |-> <<"S1", "S4">>]>>

Trip(tripId, direction, stops) ==
    [trip_id |-> tripId, direction |-> direction, stops |-> stops]

ViewSchedules ==
    <<[line_id |-> "L1",
       schedules |->
           <<Trip("T1", Northbound,
                  <<Stop("S1", TimeText(14, 30), NoTime), Stop("S2", NoTime, TimeText(15, 30))>>),
             Trip("T2", Southbound,
                  <<Stop("S2", TimeText(8, 0), NoTime), Stop("S1", NoTime, TimeText(9, 35))>>),
             Trip("T3", Northbound,
                  <<Stop("S1", TimeText(8, 0), NoTime), Stop("S2", NoTime, TimeText(9, 35))>>)>>],
      [line_id |-> "L2",
       schedules |->
           <<Trip("T4", ToLifou,
                  <<Stop("S1", TimeText(10, 0), NoTime), Stop("S4", NoTime, TimeText(11, 0))>>),
             Trip("T5", FromLifou,
                  <<Stop("S4", TimeText(16, 0), NoTime), Stop("S1", NoTime, TimeText(17, 0))>>)>>]>>

\* the fare rows of S1 and S2, and one row to S3, which is no station
ViewPrices == <<Fare("S1", "S2"), Fare("S2", "S1"), Fare("S1", "S3")>>

\* what the four files hold: the data above, or an empty array each
ViewFiles ==
    {[stations |-> ViewStations, lines |-> ViewLines,
      schedules |-> ViewSchedules, prices |-> ViewPrices],
     [stations |-> <<>>, lines |-> <<>>, schedules |-> <<>>, prices |-> <<>>]}

-----------------------------------------------------------------------------
(* StationsComponent (stations.component.ts)                               *)

Letters == <<"A", "B", "C">>

LetterRank(c) == CHOOSE i \in 1..Len(Letters) : Letters[i] = c

\* a.localeCompare(b) for two names made of the letters above
RECURSIVE compareNames(_, _)
compareNames(a, b) ==
    IF a = <<>> /\ b = <<>> THEN 0
    ELSE IF a = <<>> THEN -1
    ELSE IF b = <<>> THEN 1
    ELSE IF LetterRank(Head(a)) < LetterRank(Head(b)) THEN -1
    ELSE IF LetterRank(Head(a)) > LetterRank(Head(b)) THEN 1
    ELSE compareNames(Tail(a), Tail(b))

\* Array.prototype.includes on a list of station ids
includesId(ids, id) == \E k \in 1..Len(ids) : ids[k] = id

countSchedulesForStation(stationId, lineSchedules) ==
    LET f[k \in 0..Len(lineSchedules)] ==
            IF k = 0 THEN 0
            ELSE f[k - 1] +
                 Len(SelectSeq(lineSchedules[k].schedules,
                               LAMBDA schedule :
                                   \E i \in 1..Len(schedule.stops) :
                                       schedule.stops[i].station_id = stationId))
    IN  f[Len(lineSchedules)]

countConnectionsForStation(stationId, lines) ==
    Cardinality({id \in ViewStationIds :
                    /\ id # stationId
                    /\ \E k \in 1..Len(lines) :
                           /\ includesId(lines[k].station_ids, stationId)
                           /\ includesId(lines[k].station_ids, id)})

\* the map callback of allStations$
stationDisplays(stationList, lines, lineSchedules) ==
    [k \in 1..Len(stationList) |->
        [station          |-> stationList[k],
         linesServed      |-> SelectSeq(lines, LAMBDA line :
                                  includesId(line.station_ids, stationList[k].id)),
         scheduleCount    |-> countSchedulesForStation(stationList[k].id, lineSchedules),
         connectionsCount |-> countConnectionsForStation(stationList[k].id, lines)]]

\* sortStations with sortBy 'name' and sortOrder 'asc', the initial values:
\* a stable sort on name_fr
insertStation(sorted, x) ==
    LET p == IF \E i \in 1..Len(sorted) :
                    compareNames(sorted[i].station.name_fr, x.station.name_fr) > 0
             THEN CHOOSE i \in 1..Len(sorted) :
                      /\ compareNames(sorted[i].station.name_fr, x.station.name_fr) > 0
                      /\ \A j \in 1..(i - 1) :
                             ~(compareNames(sorted[j].station.name_fr, x.station.name_fr) > 0)
             ELSE Len(sorted) + 1
    IN  SubSeq(sorted, 1, p - 1) \o <<x>> \o SubSeq(sorted, p, Len(sorted))

sortStations(displays) ==
    LET f[k \in 0..Len(displays)] ==
            IF k = 0 THEN <<>> ELSE insertStation(f[k - 1], displays[k])
    IN  f[Len(displays)]

\* the fields of the component after construction.  Of the derived data,
\* allStationsData and filteredStations are kept (selectedIsland 'all' and
\* an empty searchTerm, the initial values, filter nothing).
\* phase: "absent" (the view is not the one shown), "created", "active"
\* (after ngOnInit) or "destroyed"; subscribed: dataSubscription is open;
\* inFlight: the reads of the files have not answered yet
StationsCreated ==
    [phase |-> "created", loading |-> TRUE, allStationsData |-> <<>>,
     filteredStations |-> <<>>, subscribed |-> FALSE, inFlight |-> FALSE,
     lastFetch |-> "none"]

StationsAbsent == [StationsCreated EXCEPT !.phase = "absent"]

\* ngOnInit: loadData
stationsOnInit(view) ==
    [view EXCEPT !.phase = "active", !.loading = TRUE,
                 !.subscribed = TRUE, !.inFlight = TRUE]

\* the reads answer while dataSubscription is open.  On an error catchError
\* sets loading and emits [], which the next handler receives
stationsOnResponse(view, files, fetchOk) ==
    LET emitted == IF fetchOk
                   THEN stationDisplays(files.stations, files.lines, files.schedules)
                   ELSE <<>>
    IN  [view EXCEPT !.allStationsData = emitted,
                     !.filteredStations = sortStations(emitted),
                     !.loading = FALSE,
                     !.subscribed = FALSE,
                     !.inFlight = FALSE,
                     !.lastFetch = IF fetchOk THEN "ok" ELSE "failed"]

\* ngOnDestroy: dataSubscription.unsubscribe()
stationsOnDestroy(view) ==
    [view EXCEPT !.phase = "destroyed", !.subscribed = FALSE]

-----------------------------------------------------------------------------
(* PricesComponent (prices.component.ts)                                   *)

\* updateDerivedData: the rows whose two stations exist, with the stations.
\* The distance and the price per kilometre of a row are left out.
pricesDisplayOf(priceList, stationList) ==
    LET rows == [k \in 1..Len(priceList) |->
                    [price |-> priceList[k],
                     o |-> stationIndex(stationList, priceList[k].origin_station_id),
                     d |-> stationIndex(stationList, priceList[k].destination_station_id)]]
        found == SelectSeq(rows, LAMBDA row : row.o # 0 /\ row.d # 0)
    IN  [k \in 1..Len(found) |->
            [price              |-> found[k].price,
             originStation      |-> stationList[found[k].o],
             destinationStation |-> stationList[found[k].d]]]

PricesCreated ==
    [phase |-> "created", loading |-> TRUE, prices |-> <<>>, stations |-> <<>>,
     pricesDisplay |-> <<>>, subscribed |-> FALSE, inFlight |-> FALSE,
     lastFetch |-> "none"]

PricesAbsent == [PricesCreated EXCEPT !.phase = "absent"]

\* ngOnInit: loadData
pricesOnInit(view) ==
    [view EXCEPT !.phase = "active", !.loading = TRUE,
                 !.subscribed = TRUE, !.inFlight = TRUE]

\* the next and the error handler of loadData
pricesOnResponse(view, files, fetchOk) ==
    IF fetchOk
    THEN [view EXCEPT !.prices = files.prices,
                      !.stations = files.stations,
                      !.pricesDisplay = pricesDisplayOf(files.prices, files.stations),
                      !.loading = FALSE,
                      !.subscribed = FALSE,
                      !.inFlight = FALSE,
                      !.lastFetch = "ok"]
    ELSE [view EXCEPT !.loading = FALSE, !.subscribed = FALSE, !.inFlight = FALSE,
                      !.lastFetch = "failed"]

\* ngOnDestroy: subscription?.unsubscribe()
pricesOnDestroy(view) ==
    [view EXCEPT !.phase = "destroyed", !.subscribed = FALSE]

-----------------------------------------------------------------------------
(* SchedulesComponent (schedules.component.ts)                             *)

\* String.prototype.startsWith
startsWith(s, prefix) ==
    Len(s) >= Len(prefix) /\ SubSeq(s, 1, Len(prefix)) = prefix

\* island_fr.toLowerCase().includes('grande-terre'), for the island names of
\* the stations file
onGrandeTerre(island) == island = "Grande-Terre"

isIslandRoute(line, stationList) ==
    \E k \in 1..Len(stationList) :
        /\ includesId(line.station_ids, stationList[k].id)
        /\ ~onGrandeTerre(stationList[k].island_fr)

\* the ScheduleDisplay of every schedule of a known line, in file order
allScheduleDisplays(lineSchedules, lines, stationList) ==
    LET displaysOf(lineSchedule) ==
            LET l == findIndex([k \in 1..Len(lines) |-> lines[k].id = lineSchedule.line_id])
            IN  IF l = 0 THEN <<>>
                ELSE [i \in 1..Len(lineSchedule.schedules) |->
                        LET schedule == lineSchedule.schedules[i]
                            found == SelectSeq(
                                [j \in 1..Len(schedule.stops) |->
                                    stationIndex(stationList, schedule.stops[j].station_id)],
                                LAMBDA s : s # 0)
                        IN  [line     |-> lines[l],
                             schedule |-> schedule,
                             stations |-> [j \in 1..Len(found) |-> stationList[found[j]]]]]
        f[k \in 0..Len(lineSchedules)] ==
            IF k = 0 THEN <<>> ELSE f[k - 1] \o displaysOf(lineSchedules[k])
    IN  f[Len(lineSchedules)]

\* the three filter callbacks of loadData
isSouth(display, stationList) ==
    IF isIslandRoute(display.line, stationList)
    THEN startsWith(display.schedule.direction, <<"f", "r", "o", "m", "-">>)
    ELSE display.schedule.direction = Southbound

isNorth(display, stationList) ==
    /\ ~isIslandRoute(display.line, stationList)
    /\ display.schedule.direction = Northbound

isIslands(display, stationList) ==
    IF isIslandRoute(display.line, stationList)
    THEN \/ startsWith(display.schedule.direction, <<"t", "o", "-">>)
         \/ ~startsWith(display.schedule.direction, <<"f", "r", "o", "m", "-">>)
    ELSE FALSE

Midnight == <<"0", "0", ":", "0", "0">>

\* the departure time sortByTime reads for a ScheduleDisplay
displayTime(display) ==
    IF Len(display.schedule.stops) >= 1 /\ Truthy(display.schedule.stops[1].departure_time)
    THEN display.schedule.stops[1].departure_time
    ELSE Midnight

sortByTime(a, b) == localeCompare(displayTime(a), displayTime(b))

\* Array.prototype.sort with sortByTime (stable)
insertByTime(sorted, x) ==
    LET p == IF \E i \in 1..Len(sorted) : sortByTime(sorted[i], x) > 0
             THEN CHOOSE i \in 1..Len(sorted) :
                      /\ sortByTime(sorted[i], x) > 0
                      /\ \A j \in 1..(i - 1) : ~(sortByTime(sorted[j], x) > 0)
             ELSE Len(sorted) + 1
    IN  SubSeq(sorted, 1, p - 1) \o <<x>> \o SubSeq(sorted, p, Len(sorted))

sortDisplays(displays) ==
    LET f[k \in 0..Len(displays)] ==
            IF k = 0 THEN <<>> ELSE insertByTime(f[k - 1], displays[k])
    IN  f[Len(displays)]

\* the map callback of schedulesByDirection$
schedulesByDirectionOf(lineSchedules, lines, stationList) ==
    LET all == allScheduleDisplays(lineSchedules, lines, stationList)
    IN  [south   |-> sortDisplays(SelectSeq(all, LAMBDA d : isSouth(d, stationList))),
         north   |-> sortDisplays(SelectSeq(all, LAMBDA d : isNorth(d, stationList))),
         islands |-> sortDisplays(SelectSeq(all, LAMBDA d : isIslands(d, stationList)))]

NoSchedules == [south |-> <<>>, north |-> <<>>, islands |-> <<>>]

\* the fields after construction.  The component has no ngOnDestroy and
\* keeps no Subscription: subscribed stays TRUE until the reads answer
SchedulesCreated ==
    [phase |-> "created", loading |-> TRUE, schedulesByDirection |-> NoSchedules,
     subscribed |-> FALSE, inFlight |-> FALSE, lastFetch |-> "none"]

SchedulesAbsent == [SchedulesCreated EXCEPT !.phase = "absent"]

\* ngOnInit: loadData
schedulesOnInit(view) ==
    [view EXCEPT !.phase = "active", !.subscribed = TRUE, !.inFlight = TRUE]

\* the reads answer: the map callback and the next handler, or catchError
\* and the next handler
schedulesOnResponse(view, files, fetchOk) ==
    [view EXCEPT !.loading = FALSE,
                 !.schedulesByDirection =
                     IF fetchOk
                     THEN schedulesByDirectionOf(files.schedules, files.lines, files.stations)
                     ELSE NoSchedules,
                 !.subscribed = FALSE,
                 !.inFlight = FALSE,
                 !.lastFetch = IF fetchOk THEN "ok" ELSE "failed"]

\* the view is torn down: the component defines no ngOnDestroy, so nothing
\* runs and the subscription of loadData stays open
schedulesOnDestroy(view) == [view EXCEPT !.phase = "destroyed"]

-----------------------------------------------------------------------------
(* SearchComponent (the second half of transport.models.ts)                *)

MaxRequests == 2

\* the SearchCriteria objects: the form object is edited in place, and
\* resetSearch replaces it by a new object; a request in flight holds the
\* object it was started with
Objects == 1..(MaxRequests + 1)

\* serviceClass and departureDate are left out: no code reads them
FreshCriteria == [originId |-> "", destinationId |-> "", timePreference |-> "any"]

\* the objects no longer reachable are forgotten
collect(view) ==
    [view EXCEPT !.heap =
        [o \in Objects |->
            IF o = view.searchCriteria \/ \E k \in 1..Len(view.inFlight) : view.inFlight[k] = o
            THEN view.heap[o]
            ELSE FreshCriteria]]

\* the most recently issued search: none issued (or its results cleared by
\* resetSearch), not answered yet, failed, or answered with results
NoSearch == [kind |-> "none", results |-> <<>>]

Pending == [kind |-> "pending", results |-> <<>>]

Failed == [kind |-> "failed", results |-> <<>>]

Answered(results) == [kind |-> "ok", results |-> results]

\* inFlight: the criteria object of each request that has not answered, in
\* the order of the calls.  The fields after lastFetch are no fields of the
\* component, they record its history: latest, the outcome of the most
\* recently issued search; afterReset, resetSearch has run and no search
\* was issued since
SearchCreated ==
    [phase |-> "created", loading |-> FALSE, searchPerformed |-> FALSE,
     searchResults |-> <<>>, searchCriteria |-> 1,
     heap |-> [o \in Objects |-> FreshCriteria],
     inFlight |-> <<>>, lastFetch |-> "none",
     latest |-> NoSearch, afterReset |-> FALSE]

SearchAbsent == [SearchCreated EXCEPT !.phase = "absent"]

searchOnInit(view) == [view EXCEPT !.phase = "active"]

isSearchValid(crit) ==
    /\ crit.originId # ""
    /\ crit.destinationId # ""
    /\ crit.originId # crit.destinationId

\* performSearch without the isSearchValid guard
performSearchUnguarded(view) ==
    [view EXCEPT !.loading = TRUE,
                 !.searchResults = <<>>,
                 !.inFlight = Append(@, view.searchCriteria),
                 !.lastFetch = "none",
                 !.latest = Pending,
                 !.afterReset = FALSE]

performSearch(view) ==
    IF ~isSearchValid(view.heap[view.searchCriteria])
    THEN view
    ELSE [view EXCEPT !.loading = TRUE,
                      !.searchResults = <<>>,
                      !.inFlight = Append(@, view.searchCriteria),
                      !.lastFetch = "none",
                      !.latest = Pending,
                      !.afterReset = FALSE]

\* the criteria a response is computed from: the criteria object of the
\* request, read by the map callback of searchWithCriteria when the fetched
\* files arrive
criteriaRead(view, k) == view.heap[view.inFlight[k]]

\* the k-th request in flight answers.  After ngOnDestroy takeUntil has
\* closed the subscription and nothing runs.

searchOnResponse(view, k, files, fetchOk) ==
    LET crit == criteriaRead(view, k)
        results == searchResults(files.stations, files.schedules, files.prices, crit)
        rest == SubSeq(view.inFlight, 1, k - 1) \o
                SubSeq(view.inFlight, k + 1, Len(view.inFlight))
        isLatest == k = Len(view.inFlight) /\ view.latest.kind = "pending"
    IN  collect(
          IF view.phase = "destroyed"
          THEN [view EXCEPT !.inFlight = rest]
          ELSE IF fetchOk
          THEN [view EXCEPT !.searchResults = results,
                            !.searchPerformed = TRUE,
                            !.loading = FALSE,
                            !.inFlight = rest,
                            !.lastFetch = "ok",
                            !.latest = IF isLatest THEN Answered(results) ELSE @]
          ELSE [view EXCEPT !.loading = FALSE,
                            !.inFlight = rest,
                            !.lastFetch = "failed",
                            !.latest = IF isLatest THEN Failed ELSE @])

swapStations(view) ==
    [view EXCEPT !.heap[view.searchCriteria] =
        [@ EXCEPT !.originId = view.heap[view.searchCriteria].destinationId,
                  !.destinationId = view.heap[view.searchCriteria].originId]]

\* resetSearch: a new criteria object, the first one nothing refers to
resetSearch(view) ==
    LET free == CHOOSE o \in Objects :
                    /\ \A k \in 1..Len(view.inFlight) : view.inFlight[k] # o
                    /\ \A p \in 1..(o - 1) :
                           \E k \in 1..Len(view.inFlight) : view.inFlight[k] = p
    IN  collect([view EXCEPT !.searchCriteria = free,
                             !.heap[free] = FreshCriteria,
                             !.searchResults = <<>>,
                             !.searchPerformed = FALSE,
                             !.latest = IF @.kind = "pending" THEN @ ELSE NoSearch,
                             !.afterReset = TRUE])

\* ngOnDestroy: destroy$ emits and completes
searchOnDestroy(view) == [view EXCEPT !.phase = "destroyed"]

\* none of the views is shown
ViewsAtRest ==
    /\ viewFiles = [stations |-> <<>>, lines |-> <<>>, schedules |-> <<>>, prices |-> <<>>]
    /\ searchView = SearchAbsent
    /\ stationsView = StationsAbsent
    /\ pricesView = PricesAbsent
    /\ schedulesView = SchedulesAbsent

-----------------------------------------------------------------------------
(* The state machine: the data store holds one data set; a caller holds    *)
(* one SearchCriteria and subscribes to searchWithCriteria(criteria).      *)

NoResponse == [kind |-> "none", results |-> <<>>]

\* no statistics computed yet
NoStatistics == [kind |-> "none", value |-> getSearchStatistics(<<>>)]

\* no duration formatted yet
NoFormatted == [kind |-> "none", service |-> <<>>, trip |-> <<>>, minutes |-> 0]

\* nobody has asked for destinations or for a distance
NoDestinations == [service |-> [kind |-> "none", list |-> <<>>],
                   duplicate |-> [kind |-> "none", list |-> <<>>]]

NotCalled == [kind |-> "none", value |-> 0]

NoDistance == [utils |-> NotCalled, search |-> NotCalled, prices |-> NotCalled]

NoPoints == [lat1 |-> 0, lon1 |-> 0, lat2 |-> 0, lon2 |-> 0]

CallsAtRest ==
    /\ destinationsQuery = [originId |-> "", stations |-> <<>>, lines |-> <<>>]
    /\ popularDestinations = NoDestinations
    /\ points = NoPoints
    /\ distance = NoDistance

\* nobody has called getSearchStatistics or a duration formatter
StatsAtRest ==
    /\ resultList = <<>>
    /\ statistics = NoStatistics
    /\ totalMinutes = 0
    /\ formatted = NoFormatted

Start(scheds, fares, crit) ==
    /\ stations = StationList
    /\ schedules = scheds
    /\ prices = fares
    /\ criteria = crit
    /\ response = NoResponse
    /\ StatsAtRest
    /\ ViewsAtRest
    /\ CallsAtRest

\* one line of one trip over any stop sequence, any fare table, any call
InitStructure ==
    \E ids \in StopPatterns, fares \in FareTables,
       o \in CriteriaIds, d \in CriteriaIds, pref \in TimePreferences :
        Start(OneLine(PatternSchedule(ids)), fares,
              [originId |-> o, destinationId |-> d, timePreference |-> pref])

\* two trips, on one line or on a line each, searched from S1 to S2
InitPairs ==
    \E s1 \in PairSchedules("T1"), s2 \in PairSchedules("T2"),
       pref \in {"any", "morning"}, oneLine \in BOOLEAN :
        Start(IF oneLine
              THEN <<[line_id |-> "L1", schedules |-> <<s1, s2>>]>>
              ELSE <<[line_id |-> "L1", schedules |-> <<s1>>],
                     [line_id |-> "L2", schedules |-> <<s2>>]>>,
              AllFares,
              [originId |-> "S1", destinationId |-> "S2", timePreference |-> pref])

\* one trip with any departure and arrival time, searched from S1 to S2
InitTimes ==
    \E dep \in DepartureTimes, arr \in ArrivalTimes, pref \in TimePreferences :
        \E s \in TimedSchedules(dep, arr) :
            Start(OneLine(s), AllFares,
                  [originId |-> "S1", destinationId |-> "S2", timePreference |-> pref])

Init == InitStructure \/ InitPairs \/ InitTimes

\* searchWithCriteria(criteria) is subscribed to and delivers; the fetch of
\* the three collections succeeds or fails
Search ==
    /\ \E fetchOk \in BOOLEAN :
          response' = searchWithCriteria(stations, schedules, prices, criteria, fetchOk)
    /\ schedules' = lineSchedulesAfterSearch(schedules, criteria)
    /\ UNCHANGED <<stations, prices, criteria>>
    /\ UNCHANGED <<statsVars, viewVars, callVars>>

\* the caller passes the results it received to getSearchStatistics
SearchStatistics ==
    /\ response.kind = "value"
    /\ resultList' = response.results
    /\ statistics' = [kind |-> "value", value |-> getSearchStatistics(response.results)]
    /\ UNCHANGED <<searchVars, totalMinutes, formatted, viewVars, callVars>>

Next == Search \/ SearchStatistics

Spec == Init /\ [][Next]_vars

-----------------------------------------------------------------------------
(* StatsSpec: getSearchStatistics on result lists of up to MaxResults      *)
(* results, and the two duration formatters on 0..MaxMinutes minutes       *)

MaxResults == 3

MaxMinutes == 1439

\* six trips from S1 to S2: 1h 35min in the morning, 1h in the afternoon,
\* 45min in the evening, two without a duration (arrival before departure,
\* no departure time), and one of 0min that starts at S3 in the afternoon
\* and leaves S1 in the morning
SampleTrips ==
    {<<Stop("S1", TimeText(8, 0), NoTime), Stop("S2", NoTime, TimeText(9, 35))>>,
     <<Stop("S1", TimeText(14, 30), NoTime), Stop("S2", NoTime, TimeText(15, 30))>>,
     <<Stop("S1", TimeText(18, 5), NoTime), Stop("S2", NoTime, TimeText(18, 50))>>,
     <<Stop("S1", TimeText(22, 10), NoTime), Stop("S2", NoTime, TimeText(10, 15))>>,
     <<Stop("S1", NoTime, NoTime), Stop("S2", NoTime, TimeText(10, 15))>>,
     <<Stop("S3", TimeText(14, 30), NoTime), Stop("S1", TimeText(8, 0), TimeText(7, 50)),
       Stop("S2", NoTime, TimeText(8, 0))>>}

\* two price triplets; in the second the third class is the dearest
SamplePrices ==
    {[first_class |-> 300, second_class |-> 200, third_class |-> 100],
     [first_class |-> 90, second_class |-> 150, third_class |-> 250]}

\* a SearchResult from S1 to S2 as the map callback of searchWithCriteria
\* builds it
SampleResult(stops, price) ==
    [origin      |-> [id |-> "S1"],
     destination |-> [id |-> "S2"],
     schedule    |-> [trip_id |-> "T1", stops |-> stops],
     price       |-> price,
     duration    |-> calculateTripDuration([trip_id |-> "T1", stops |-> stops], "S1", "S2")]

SampleResults == {SampleResult(stops, price) : stops \in SampleTrips, price \in SamplePrices}

SearchAtRest ==
    /\ stations = StationList
    /\ schedules = <<>>
    /\ prices = <<>>
    /\ criteria = [originId |-> "", destinationId |-> "", timePreference |-> ""]
    /\ response = NoResponse

\* a result list for getSearchStatistics
StatsInitLists ==
    \E n \in 0..MaxResults : \E list \in [1..n -> SampleResults] :
        /\ resultList = list
        /\ totalMinutes = 0

\* a number of minutes for the formatters
StatsInitMinutes ==
    \E m \in 0..MaxMinutes :
        /\ resultList = <<>>
        /\ totalMinutes = m

\* the trip from S1 to S2 that leaves at 00:00 and arrives m minutes later
TripOfMinutes(m) ==
    <<Stop("S1", TimeText(0, 0), NoTime),
      Stop("S2", NoTime, TimeText(m \div 60, m % 60))>>

\* a list of results that all take the same number of minutes
StatsInitSame ==
    \E m \in 0..MaxMinutes, n \in 1..MaxResults, price \in SamplePrices :
        /\ resultList = [k \in 1..n |-> SampleResult(TripOfMinutes(m), price)]
        /\ totalMinutes = m

StatsInit ==
    /\ SearchAtRest
    /\ ViewsAtRest
    /\ CallsAtRest
    /\ statistics = NoStatistics
    /\ formatted = NoFormatted
    /\ (StatsInitLists \/ StatsInitMinutes \/ StatsInitSame)

GetSearchStatistics ==
    /\ statistics' = [kind |-> "value", value |-> getSearchStatistics(resultList)]
    /\ UNCHANGED <<searchVars, resultList, totalMinutes, formatted, viewVars, callVars>>

\* formatDuration(totalMinutes), calculateTripDuration of a trip that
\* leaves at 00:00 and arrives totalMinutes later, and
\* parseDurationToMinutes of the text of formatDuration
FormatDuration ==
    /\ formatted' =
           [kind    |-> "value",
            service |-> formatDuration(totalMinutes),
            trip    |-> calculateTripDuration(
                            [trip_id |-> "T1", stops |-> TripOfMinutes(totalMinutes)],
                            "S1", "S2"),
            minutes |-> parseDurationToMinutes(formatDuration(totalMinutes))]
    /\ UNCHANGED <<searchVars, resultList, statistics, totalMinutes, viewVars, callVars>>

StatsNext == GetSearchStatistics \/ FormatDuration

StatsSpec == StatsInit /\ [][StatsNext]_vars

-----------------------------------------------------------------------------
(* ViewSpec: one of the four views is shown; it is initialised, used and   *)
(* torn down while the reads of the static files answer or fail            *)

FormIds == {"", "S1", "S2"}

FormTimePreferences == {"any", "morning"}

ViewInit ==
    /\ SearchAtRest
    /\ StatsAtRest
    /\ CallsAtRest
    /\ viewFiles \in ViewFiles
    /\ \E shown \in {"search", "stations", "prices", "schedules"} :
          /\ searchView = IF shown = "search" THEN SearchCreated ELSE SearchAbsent
          /\ stationsView = IF shown = "stations" THEN StationsCreated ELSE StationsAbsent
          /\ pricesView = IF shown = "prices" THEN PricesCreated ELSE PricesAbsent
          /\ schedulesView = IF shown = "schedules" THEN SchedulesCreated ELSE SchedulesAbsent

SearchInit ==
    /\ searchView.phase = "created"
    /\ searchView' = searchOnInit(searchView)
    /\ UNCHANGED <<searchVars, statsVars, callVars, viewFiles, stationsView, pricesView, schedulesView>>

\* the user edits a field of the form, which writes to the criteria object
SearchEdit ==
    /\ searchView.phase = "active"
    /\ \/ \E id \in FormIds :
             searchView' = [searchView EXCEPT !.heap[searchView.searchCriteria].originId = id]
       \/ \E id \in FormIds :
             searchView' = [searchView EXCEPT
                               !.heap[searchView.searchCriteria].destinationId = id]
       \/ \E pref \in FormTimePreferences :
             searchView' = [searchView EXCEPT
                               !.heap[searchView.searchCriteria].timePreference = pref]
    /\ UNCHANGED <<searchVars, statsVars, callVars, viewFiles, stationsView, pricesView, schedulesView>>

SearchSwapStations ==
    /\ searchView.phase = "active"
    /\ searchView' = swapStations(searchView)
    /\ UNCHANGED <<searchVars, statsVars, callVars, viewFiles, stationsView, pricesView, schedulesView>>

SearchResetSearch ==
    /\ searchView.phase = "active"
    /\ searchView' = resetSearch(searchView)
    /\ UNCHANGED <<searchVars, statsVars, callVars, viewFiles, stationsView, pricesView, schedulesView>>

\* at most MaxRequests requests are in flight at a time
SearchPerformSearch ==
    /\ searchView.phase = "active"
    /\ Len(searchView.inFlight) < MaxRequests
    /\ searchView' = performSearch(searchView)
    /\ UNCHANGED <<searchVars, statsVars, callVars, viewFiles, stationsView, pricesView, schedulesView>>

\* one of the requests in flight answers or fails
SearchResponse ==
    /\ \E k \in 1..Len(searchView.inFlight), fetchOk \in BOOLEAN :
          searchView' = searchOnResponse(searchView, k, viewFiles, fetchOk)
    /\ UNCHANGED <<searchVars, statsVars, callVars, viewFiles, stationsView, pricesView, schedulesView>>

SearchDestroy ==
    /\ searchView.phase = "active"
    /\ searchView' = searchOnDestroy(searchView)
    /\ UNCHANGED <<searchVars, statsVars, callVars, viewFiles, stationsView, pricesView, schedulesView>>

StationsInit ==
    /\ stationsView.phase = "created"
    /\ stationsView' = stationsOnInit(stationsView)
    /\ UNCHANGED <<searchVars, statsVars, callVars, viewFiles, searchView, pricesView, schedulesView>>

\* the reads answer or fail; a closed subscription runs no handler
StationsResponse ==
    /\ stationsView.inFlight
    /\ \E fetchOk \in BOOLEAN :
          stationsView' = IF stationsView.subscribed
                          THEN stationsOnResponse(stationsView, viewFiles, fetchOk)
                          ELSE [stationsView EXCEPT !.inFlight = FALSE]
    /\ UNCHANGED <<searchVars, statsVars, callVars, viewFiles, searchView, pricesView, schedulesView>>

StationsDestroy ==
    /\ stationsView.phase = "active"
    /\ stationsView' = stationsOnDestroy(stationsView)
    /\ UNCHANGED <<searchVars, statsVars, callVars, viewFiles, searchView, pricesView, schedulesView>>

PricesInit ==
    /\ pricesView.phase = "created"
    /\ pricesView' = pricesOnInit(pricesView)
    /\ UNCHANGED <<searchVars, statsVars, callVars, viewFiles, searchView, stationsView, schedulesView>>

PricesResponse ==
    /\ pricesView.inFlight
    /\ \E fetchOk \in BOOLEAN :
          pricesView' = IF pricesView.subscribed
                        THEN pricesOnResponse(pricesView, viewFiles, fetchOk)
                        ELSE [pricesView EXCEPT !.inFlight = FALSE]
    /\ UNCHANGED <<searchVars, statsVars, callVars, viewFiles, searchView, stationsView, schedulesView>>

PricesDestroy ==
    /\ pricesView.phase = "active"
    /\ pricesView' = pricesOnDestroy(pricesView)
    /\ UNCHANGED <<searchVars, statsVars, callVars, viewFiles, searchView, stationsView, schedulesView>>

SchedulesInit ==
    /\ schedulesView.phase = "created"
    /\ schedulesView' = schedulesOnInit(schedulesView)
    /\ UNCHANGED <<searchVars, statsVars, callVars, viewFiles, searchView, stationsView, pricesView>>

SchedulesResponse ==
    /\ schedulesView.inFlight
    /\ \E fetchOk \in BOOLEAN :
          schedulesView' = IF schedulesView.subscribed
                           THEN schedulesOnResponse(schedulesView, viewFiles, fetchOk)
                           ELSE [schedulesView EXCEPT !.inFlight = FALSE]
    /\ UNCHANGED <<searchVars, statsVars, callVars, viewFiles, searchView, stationsView, pricesView>>

SchedulesDestroy ==
    /\ schedulesView.phase = "active"
    /\ schedulesView' = schedulesOnDestroy(schedulesView)
    /\ UNCHANGED <<searchVars, statsVars, callVars, viewFiles, searchView, stationsView, pricesView>>

ViewNext ==
    \/ SearchInit \/ SearchEdit \/ SearchSwapStations \/ SearchResetSearch
    \/ SearchPerformSearch \/ SearchResponse \/ SearchDestroy
    \/ StationsInit \/ StationsResponse \/ StationsDestroy
    \/ PricesInit \/ PricesResponse \/ PricesDestroy
    \/ SchedulesInit \/ SchedulesResponse \/ SchedulesDestroy

ViewSpec == ViewInit /\ [][ViewNext]_vars

-----------------------------------------------------------------------------
(* The schedules view over a family of schedule files: two trips, each on  *)
(* the line of Grande-Terre, on the island line or on a line that is not   *)
(* in the lines file, with any direction of the vocabulary and a first     *)
(* stop with or without a departure time.                                  *)

Directions == {Northbound, Southbound, Outbound, Inbound, ToLifou, FromLifou}

FileLineIds == {"L1", "L2", "L9"}

FirstDepartures == {TimeText(8, 0), TimeText(14, 30), NoTime}

FileTrips(tripId) ==
    {[line_id |-> l,
      trip    |-> Trip(tripId, dir,
                       <<Stop("S1", dep, NoTime), Stop("S2", NoTime, TimeText(23, 0))>>)] :
        l \in FileLineIds, dir \in Directions, dep \in FirstDepartures}

\* the schedules file of two trips, grouped by line when they share it
ScheduleFile(t1, t2) ==
    IF t1.line_id = t2.line_id
    THEN <<[line_id |-> t1.line_id, schedules |-> <<t1.trip, t2.trip>>]>>
    ELSE <<[line_id |-> t1.line_id, schedules |-> <<t1.trip>>],
           [line_id |-> t2.line_id, schedules |-> <<t2.trip>>]>>

SchedulesDataInit ==
    /\ SearchAtRest
    /\ StatsAtRest
    /\ CallsAtRest
    /\ \E t1 \in FileTrips("T1"), t2 \in FileTrips("T2") :
          viewFiles = [stations |-> ViewStations, lines |-> ViewLines,
                       schedules |-> ScheduleFile(t1, t2), prices |-> ViewPrices]
    /\ searchView = SearchAbsent
    /\ stationsView = StationsAbsent
    /\ pricesView = PricesAbsent
    /\ schedulesView = SchedulesCreated

SchedulesNext == SchedulesInit \/ SchedulesResponse \/ SchedulesDestroy

SchedulesSpec == SchedulesDataInit /\ [][SchedulesNext]_vars

-----------------------------------------------------------------------------
(* getPopularDestinations, in search.service.ts and in its duplicate       *)
(* 'search.service 2.ts'                                                   *)

\* at most five suggestions
SuggestionLimit == 5

MaxLineStops == 3

\* Array.prototype.slice(0, n)
sliceFirst(list, n) == SubSeq(list, 1, IF Len(list) < n THEN Len(list) ELSE n)

\* the destinations one line adds in search.service.ts: its ids other than
\* the origin, mapped to stations, without the ids unknown to the stations
\* file and without the stations already among the destinations
lineDestinations(destinations, line, originId, stationList) ==
    LET ids == SelectSeq(line.station_ids, LAMBDA stationId : stationId # originId)
        found == [k \in 1..Len(ids) |-> stationIndex(stationList, ids[k])]
        kept == SelectSeq(found,
                    LAMBDA i : /\ i # 0
                               /\ ~\E d \in 1..Len(destinations) :
                                      destinations[d].id = stationList[i].id)
    IN  [k \in 1..Len(kept) |-> stationList[kept[k]]]

\* the map callback of getPopularDestinations in search.service.ts
getPopularDestinations(originId, stationList, lines) ==
    LET through == SelectSeq(lines, LAMBDA line : includesId(line.station_ids, originId))
        reduce[k \in 0..Len(through)] ==
            IF k = 0 THEN <<>>
            ELSE reduce[k - 1] \o lineDestinations(reduce[k - 1], through[k], originId, stationList)
    IN  sliceFirst(reduce[Len(through)], SuggestionLimit)

\* the inner forEach of 'search.service 2.ts': every id of the line pushes
\* its station unless it is the origin, unknown or already pushed
pushLineStations(popular, line, originId, stationList) ==
    LET ids == line.station_ids
        push[k \in 0..Len(ids)] ==
            IF k = 0 THEN popular
            ELSE LET i == stationIndex(stationList, ids[k])
                 IN  IF /\ ids[k] # originId
                        /\ i # 0
                        /\ ~\E d \in 1..Len(push[k - 1]) : push[k - 1][d].id = stationList[i].id
                     THEN Append(push[k - 1], stationList[i])
                     ELSE push[k - 1]
    IN  push[Len(ids)]

\* the map callback of getPopularDestinations in 'search.service 2.ts'
getPopularDestinationsDuplicate(originId, stationList, lines) ==
    LET forEach[k \in 0..Len(lines)] ==
            IF k = 0 THEN <<>>
            ELSE IF includesId(lines[k].station_ids, originId)
                 THEN pushLineStations(forEach[k - 1], lines[k], originId, stationList)
                 ELSE forEach[k - 1]
    IN  sliceFirst(forEach[Len(lines)], SuggestionLimit)

\* the stations file: seven stations
DestinationStations ==
    [k \in 1..7 |-> [id |-> <<"S1", "S2", "S3", "S4", "S5", "S6", "S7">>[k],
                     name_fr |-> <<"N">>, island_fr |-> "Grande-Terre"]]

ShortLineIds == {"S1", "S2", "S3"}

\* the station_ids of a line: up to MaxLineStops ids, repetitions allowed,
\* or a long line, or a line through a station missing from the stations file
LineStationIds ==
    UNION {[1..n -> ShortLineIds] : n \in 0..MaxLineStops}
        \cup {<<"S1", "S2", "S3", "S4", "S5", "S6", "S7">>, <<"S1", "S9", "S4">>}

PopularInit ==
    /\ SearchAtRest
    /\ StatsAtRest
    /\ ViewsAtRest
    /\ \E originId \in {"S1", "S2", "S9"} :
       \E ids1 \in LineStationIds, ids2 \in LineStationIds :
          destinationsQuery =
              [originId |-> originId, stations |-> DestinationStations,
               lines |-> <<[id |-> "L1", station_ids |-> ids1],
                           [id |-> "L2", station_ids |-> ids2]>>]
    /\ popularDestinations = NoDestinations
    /\ points = NoPoints
    /\ distance = NoDistance

\* the files arrive at a subscriber of getPopularDestinations(originId) of
\* search.service.ts
GetPopularDestinations ==
    /\ popularDestinations.service.kind = "none"
    /\ popularDestinations' =
          [popularDestinations EXCEPT !.service =
              [kind |-> "ok",
               list |-> getPopularDestinations(destinationsQuery.originId,
                            destinationsQuery.stations, destinationsQuery.lines)]]
    /\ UNCHANGED <<searchVars, statsVars, viewVars, destinationsQuery, points, distance>>

\* the same for 'search.service 2.ts'
GetPopularDestinationsDuplicate ==
    /\ popularDestinations.duplicate.kind = "none"
    /\ popularDestinations' =
          [popularDestinations EXCEPT !.duplicate =
              [kind |-> "ok",
               list |-> getPopularDestinationsDuplicate(destinationsQuery.originId,
                            destinationsQuery.stations, destinationsQuery.lines)]]
    /\ UNCHANGED <<searchVars, statsVars, viewVars, destinationsQuery, points, distance>>

PopularNext == GetPopularDestinations \/ GetPopularDestinationsDuplicate

PopularSpec == PopularInit /\ [][PopularNext]_vars

-----------------------------------------------------------------------------
(* calculateDistance: UtilsService (part_000), SearchService and           *)
(* PricesComponent.  A Number is kept to eight decimals: the real x is the *)
(* integer x * Unit, cut towards zero.  Every operation below is exact at  *)
(* 0 and 1, as the floating-point operation it models is, and elsewhere    *)
(* within a few units of the eighth decimal.  Coordinates are tenths of a  *)
(* degree, distances are metres until they are rounded.                    *)

Limb == 10 ^ 4

Unit == Limb * Limb

\* Math.PI
Pi == 314159265

HalfPi == Pi \div 2

\* const R = 6371
EarthRadius == 6371

Abs(x) == IF x < 0 THEN -x ELSE x

\* x / n for an integer n > 0
Over(x, n) == IF x < 0 THEN -((-x) \div n) ELSE x \div n

\* x * y, computed in two limbs so that no intermediate value leaves 32 bits
\* (for |x|, |y| up to 4)
Times(x, y) ==
    LET xh == Abs(x) \div Limb
        xl == Abs(x) % Limb
        yh == Abs(y) \div Limb
        yl == Abs(y) % Limb
        p  == xh * yh + (xh * yl + xl * yh + (xl * yl) \div Limb) \div Limb
    IN  IF (x < 0) # (y < 0) THEN -p ELSE p

\* y / x for 0 <= y and 0 < x <= 2, by long division
RECURSIVE QuotientDigits(_, _, _, _)
QuotientDigits(q, r, x, k) ==
    IF k = 0 THEN q
    ELSE QuotientDigits(q * 10 + (r * 10) \div x, (r * 10) % x, x, k - 1)

Quotient(y, x) == QuotientDigits(y \div x, y % x, x, 8)

\* degrees * (Math.PI / 180), for tenths of a degree
toRadians(tenths) ==
    IF tenths < 0 THEN -(Abs(tenths) * 174532 + (Abs(tenths) * 9252) \div Limb)
    ELSE tenths * 174532 + (tenths * 9252) \div Limb

\* the sum of a power series whose next term is -term * x2 / ((k+1)(k+2))
RECURSIVE TaylorSum(_, _, _, _)
TaylorSum(term, x2, k, sum) ==
    IF term = 0 THEN sum
    ELSE TaylorSum(-Over(Times(term, x2), (k + 1) * (k + 2)), x2, k + 2, sum + term)

\* Math.sin, for -Pi <= x <= Pi
sin(x) ==
    LET r == IF x > HalfPi THEN Pi - x ELSE IF x < -HalfPi THEN -Pi - x ELSE x
    IN  TaylorSum(r, Times(r, r), 1, 0)

\* Math.cos, for -Pi <= x <= Pi
cos(x) ==
    IF Abs(x) > HalfPi
    THEN -TaylorSum(Unit, Times(Pi - Abs(x), Pi - Abs(x)), 0, 0)
    ELSE TaylorSum(Unit, Times(x, x), 0, 0)

\* the digits of x * x below the eighth decimal, for x >= 0
SquareRest(x) ==
    (((2 * (x \div Limb) * (x % Limb)) % Limb) * Limb + (x % Limb) * (x % Limb)) % Unit

\* Math.sqrt, for 0 <= a <= 4: the largest root whose square is not above a
RECURSIVE sqrtBetween(_, _, _)
sqrtBetween(a, lo, hi) ==
    IF lo >= hi THEN lo
    ELSE LET mid == (lo + hi + 1) \div 2
         IN  IF Times(mid, mid) < a \/ (Times(mid, mid) = a /\ SquareRest(mid) = 0)
             THEN sqrtBetween(a, mid, hi)
             ELSE sqrtBetween(a, lo, mid - 1)

sqrt(a) == sqrtBetween(a, 0, 2 * Unit)

\* t - t^3/3 + t^5/5 - ...
RECURSIVE atanSum(_, _, _, _)
atanSum(power, t2, n, sum) ==
    IF power = 0 THEN sum
    ELSE atanSum(-Times(power, t2), t2, n + 2, sum + Over(power, n))

\* Math.atan, for 0 <= t <= 1; above 1/2 by atan(t) = 2 atan((sqrt(1+t^2)-1)/t)
atan(t) ==
    IF 2 * t <= Unit THEN atanSum(t, Times(t, t), 1, 0)
    ELSE LET half == Quotient(sqrt(Unit + Times(t, t)) - Unit, t)
         IN  2 * atanSum(half, Times(half, half), 1, 0)

\* Math.atan2(y, x), for 0 <= y <= 1 and 0 <= x <= 1
atan2(y, x) ==
    IF y = 0 THEN 0
    ELSE IF y <= x THEN atan(Quotient(y, x))
    ELSE HalfPi - atan(Quotient(x, y))

\* R * c in metres
earthTimes(c) ==
    (EarthRadius * (c \div Limb) * 10 + (EarthRadius * (c % Limb)) \div 1000) \div 100

\* the formula with the sum of the latitudes for their difference
haversineLatSum(lat1, lon1, lat2, lon2) ==
    LET dLat == toRadians(lat2 + lat1)
        dLon == toRadians(lon2 - lon1)
        a == Times(sin(Over(dLat, 2)), sin(Over(dLat, 2)))
             + Times(Times(Times(cos(toRadians(lat1)), cos(toRadians(lat2))),
                           sin(Over(dLon, 2))), sin(Over(dLon, 2)))
        c == 2 * atan2(sqrt(a), sqrt(Unit - a))
    IN  earthTimes(c)

\* the formula without the cosines of the latitudes
haversineFlat(lat1, lon1, lat2, lon2) ==
    LET dLat == toRadians(lat2 - lat1)
        dLon == toRadians(lon2 - lon1)
        a == Times(sin(Over(dLat, 2)), sin(Over(dLat, 2)))
             + Times(sin(Over(dLon, 2)), sin(Over(dLon, 2)))
        c == 2 * atan2(sqrt(a), sqrt(Unit - a))
    IN  earthTimes(c)

\* the haversine formula, as the three implementations write it
haversine(lat1, lon1, lat2, lon2) ==
    LET dLat == toRadians(lat2 - lat1)
        dLon == toRadians(lon2 - lon1)
        a == Times(sin(Over(dLat, 2)), sin(Over(dLat, 2)))
             + Times(Times(Times(cos(toRadians(lat1)), cos(toRadians(lat2))),
                           sin(Over(dLon, 2))), sin(Over(dLon, 2)))
        c == 2 * atan2(sqrt(a), sqrt(Unit - a))
    IN  earthTimes(c)

\* Math.round(distance), in kilometres
roundKilometres(metres) == (metres + 500) \div 1000

\* Math.round(distance * 10) / 10, in tenths of a kilometre
roundTenths(metres) == (metres + 50) \div 100

\* UtilsService.calculateDistance, in tenths of a kilometre
utilsCalculateDistance(lat1, lon1, lat2, lon2) ==
    roundTenths(haversine(lat1, lon1, lat2, lon2))

\* SearchService.calculateDistance, in kilometres
searchCalculateDistance(origin, destination) ==
    roundKilometres(haversine(origin.lat, origin.lon, destination.lat, destination.lon))

\* PricesComponent.calculateDistance, in tenths of a kilometre
pricesCalculateDistance(coord1, coord2) ==
    roundTenths(haversine(coord1.lat, coord1.lon, coord2.lat, coord2.lon))

\* coordinates in tenths of a degree: stations of New Caledonia, the
\* equator, the poles, the date line and a point of the northern and
\* western hemispheres
Coordinates ==
    {[lat |-> -222, lon |-> 1664], [lat |-> -209, lon |-> 1670],
     [lat |-> -215, lon |-> 1659], [lat |-> 0, lon |-> 0],
     [lat |-> 455, lon |-> -1225], [lat |-> 900, lon |-> 0],
     [lat |-> -900, lon |-> 1800], [lat |-> 0, lon |-> 1800],
     [lat |-> 100, lon |-> -1790]}

DistanceInit ==
    /\ SearchAtRest
    /\ StatsAtRest
    /\ ViewsAtRest
    /\ destinationsQuery = [originId |-> "", stations |-> <<>>, lines |-> <<>>]
    /\ popularDestinations = NoDestinations
    /\ \E p \in Coordinates, q \in Coordinates :
          points = [lat1 |-> p.lat, lon1 |-> p.lon, lat2 |-> q.lat, lon2 |-> q.lon]
    /\ distance = NoDistance

UtilsCalculateDistance ==
    /\ distance.utils.kind = "none"
    /\ distance' = [distance EXCEPT !.utils =
          [kind |-> "ok",
           value |-> utilsCalculateDistance(points.lat1, points.lon1, points.lat2, points.lon2)]]
    /\ UNCHANGED <<searchVars, statsVars, viewVars, destinationsQuery, popularDestinations, points>>

SearchCalculateDistance ==
    /\ distance.search.kind = "none"
    /\ distance' = [distance EXCEPT !.search =
          [kind |-> "ok",
           value |-> searchCalculateDistance([lat |-> points.lat1, lon |-> points.lon1],
                                             [lat |-> points.lat2, lon |-> points.lon2])]]
    /\ UNCHANGED <<searchVars, statsVars, viewVars, destinationsQuery, popularDestinations, points>>

PricesCalculateDistance ==
    /\ distance.prices.kind = "none"
    /\ distance' = [distance EXCEPT !.prices =
          [kind |-> "ok",
           value |-> pricesCalculateDistance([lat |-> points.lat1, lon |-> points.lon1],
                                             [lat |-> points.lat2, lon |-> points.lon2])]]
    /\ UNCHANGED <<searchVars, statsVars, viewVars, destinationsQuery, popularDestinations, points>>

DistanceNext == UtilsCalculateDistance \/ SearchCalculateDistance \/ PricesCalculateDistance

DistanceSpec == DistanceInit /\ [][DistanceNext]_vars

-----------------------------------------------------------------------------
(* Vocabulary of the properties                                            *)

Delivered == response.kind = "value"

Results == response.results

\* the trips of all lines, in the order of the data
AllTrips ==
    LET f[k \in 0..Len(schedules)] ==
            IF k = 0 THEN <<>> ELSE f[k - 1] \o schedules[k].schedules
    IN  f[Len(schedules)]

Count(seq, x) == Cardinality({k \in 1..Len(seq) : seq[k] = x})

ResultTrips == [k \in 1..Len(Results) |-> Results[k].schedule]

StationKnown(id) == \E k \in 1..Len(stations) : stations[k].id = id

FareRowExists(o, d) ==
    \E k \in 1..Len(prices) : /\ prices[k].origin_station_id = o
                              /\ prices[k].destination_station_id = d

\* some stop of the origin comes before some stop of the destination
VisitsInOrder(trip, o, d) ==
    \E i, j \in 1..Len(trip.stops) : /\ i < j
                                     /\ trip.stops[i].station_id = o
                                     /\ trip.stops[j].station_id = d

Occurrences(trip, id) ==
    Cardinality({i \in 1..Len(trip.stops) : trip.stops[i].station_id = id})

NoTimeFilter == criteria.timePreference \in {"", "any"}

-----------------------------------------------------------------------------
(* C1: with timePreference 'any', every result returned carries a schedule *)
(* with a stop of the origin at an index strictly smaller than the index   *)
(* of a stop of the destination.                                           *)
C1_OriginBeforeDestination ==
    (Delivered /\ criteria.timePreference = "any") =>
        \A k \in 1..Len(Results) :
            VisitsInOrder(Results[k].schedule, criteria.originId, criteria.destinationId)

\* a search with 'any' that returns a trip of three stops
C1_Witness ==
    /\ Delivered
    /\ criteria.timePreference = "any"
    /\ \E k \in 1..Len(Results) : Len(Results[k].schedule.stops) = 3

(* C2: with both stations known, an exact fare row and no time filter, the *)
(* trips returned are exactly the trips that visit the origin at some      *)
(* index i and the destination at some index j > i, each once per          *)
(* occurrence in the data, also when a station occurs more than once in    *)
(* the stop sequence.  (Stated for two different stations: C4 is about a   *)
(* search from a station to itself.)                                       *)
C2_AllVisitingTripsReturned ==
    (/\ Delivered
     /\ NoTimeFilter
     /\ criteria.originId # criteria.destinationId
     /\ StationKnown(criteria.originId)
     /\ StationKnown(criteria.destinationId)
     /\ FareRowExists(criteria.originId, criteria.destinationId)) =>
        \A k \in 1..Len(AllTrips) :
            Count(ResultTrips, AllTrips[k]) =
                IF VisitsInOrder(AllTrips[k], criteria.originId, criteria.destinationId)
                THEN Count(AllTrips, AllTrips[k])
                ELSE 0

(* C3: without a fare row for exactly (origin, destination), the search    *)
(* returns the empty sequence, also when connecting trips and the row of   *)
(* the reversed pair exist.                                                *)
C3_NoFareNoResult ==
    (Delivered /\ ~FareRowExists(criteria.originId, criteria.destinationId)) =>
        Results = <<>>

\* both stations known, a trip from origin to destination, the reversed fare
\* row only, and an empty response
C3_Witness ==
    /\ Delivered
    /\ Results = <<>>
    /\ StationKnown(criteria.originId)
    /\ StationKnown(criteria.destinationId)
    /\ ~FareRowExists(criteria.originId, criteria.destinationId)
    /\ FareRowExists(criteria.destinationId, criteria.originId)
    /\ \E k \in 1..Len(AllTrips) :
           VisitsInOrder(AllTrips[k], criteria.originId, criteria.destinationId)

(* C4: a search whose origin and destination are the same station returns  *)
(* the empty sequence, for every filter and every data set.                *)
C4_SameStationEmpty ==
    (Delivered /\ criteria.originId = criteria.destinationId) => Results = <<>>

\* a known station searched to itself under a time band, with a fare row
\* (A,A) and a trip that visits A twice
C4_Witness ==
    /\ Delivered
    /\ criteria.originId = criteria.destinationId
    /\ StationKnown(criteria.originId)
    /\ criteria.timePreference = "morning"
    /\ FareRowExists(criteria.originId, criteria.originId)
    /\ \E k \in 1..Len(AllTrips) : Occurrences(AllTrips[k], criteria.originId) >= 2
    /\ Results = <<>>

-----------------------------------------------------------------------------
(* Times of a trip at the stations of the search                           *)

HourOf(t) == DigitVal(t[1]) * 10 + DigitVal(t[2])

MinutesOf(t) == HourOf(t) * 60 + DigitVal(t[4]) * 10 + DigitVal(t[5])

Visits(trip, id) == \E i \in 1..Len(trip.stops) : trip.stops[i].station_id = id

\* the first stop of the trip at the station
FirstStopAt(trip, id) ==
    trip.stops[CHOOSE i \in 1..Len(trip.stops) :
                  /\ trip.stops[i].station_id = id
                  /\ \A j \in 1..(i - 1) : trip.stops[j].station_id # id]

OriginDeparture(trip) ==
    IF Visits(trip, criteria.originId)
    THEN FirstStopAt(trip, criteria.originId).departure_time ELSE NoTime

DestinationArrival(trip) ==
    IF Visits(trip, criteria.destinationId)
    THEN FirstStopAt(trip, criteria.destinationId).arrival_time ELSE NoTime

\* lexicographic order of two texts
LexLess(a, b) ==
    \/ Len(a) < Len(b) /\ a = SubSeq(b, 1, Len(a))
    \/ \E i \in 1..Len(a) : /\ i <= Len(b)
                            /\ SubSeq(a, 1, i - 1) = SubSeq(b, 1, i - 1)
                            /\ CharRank(a[i]) < CharRank(b[i])

LexLeq(a, b) == a = b \/ LexLess(a, b)

\* the trips the connection step of the search selects
Connecting == findConnectingSchedules(schedules, criteria.originId, criteria.destinationId)

SearchReachesFilter ==
    /\ Delivered
    /\ StationKnown(criteria.originId)
    /\ StationKnown(criteria.destinationId)
    /\ FareRowExists(criteria.originId, criteria.destinationId)

(* C5: the results are in non-decreasing lexicographic order of the        *)
(* departure time at the origin stop, also when the origin is not the      *)
(* first stop of the trip.  (Compared where both results have a departure  *)
(* time at the origin.)                                                    *)
C5_SortedByOriginDeparture ==
    Delivered =>
        \A k \in 1..(Len(Results) - 1) :
            LET t1 == OriginDeparture(Results[k].schedule)
                t2 == OriginDeparture(Results[k + 1].schedule)
            IN  (t1 # NoTime /\ t2 # NoTime) => LexLeq(t1, t2)

(* C6: a result whose origin stop has no departure time comes after every  *)
(* result whose origin departure time is earlier than 23:59.               *)
C6_MissingDepartureLast ==
    Delivered =>
        \A i, j \in 1..Len(Results) :
            (/\ OriginDeparture(Results[i].schedule) = NoTime
             /\ OriginDeparture(Results[j].schedule) # NoTime
             /\ LexLess(OriginDeparture(Results[j].schedule), DefaultTime)) => j < i

\* the hour band of C7 for the time preference of the call
InBand(t) ==
    CASE criteria.timePreference = "morning" -> HourOf(t) >= 6 /\ HourOf(t) < 12
      [] criteria.timePreference = "afternoon" -> HourOf(t) >= 12 /\ HourOf(t) < 18
      [] OTHER -> TRUE

(* C7: with 'morning' (resp. 'afternoon') the search keeps exactly the     *)
(* connecting trips whose departure hour at the origin stop is in [6,12)   *)
(* (resp. [12,18)); with 'any' or no preference it keeps them all.         *)
C7_KeepsExactlyTheBand ==
    (SearchReachesFilter /\ criteria.timePreference # "evening") =>
        \A k \in 1..Len(Connecting) :
            Count(ResultTrips, Connecting[k]) > 0 <=>
                \/ NoTimeFilter
                \/ /\ OriginDeparture(Connecting[k]) # NoTime
                   /\ InBand(OriginDeparture(Connecting[k]))

(* C7 as amended: with 'morning' (resp. 'afternoon') the search keeps      *)
(* exactly the connecting trips whose first stop at the origin has no      *)
(* departure time or departs at an hour in [6,12) (resp. [12,18)), each    *)
(* as often as the connection step found it; with 'any' or no preference   *)
(* it keeps them all.                                                      *)
C7_KeepsBandOrNoDeparture ==
    (SearchReachesFilter /\ criteria.timePreference # "evening") =>
        /\ \A k \in 1..Len(Connecting) :
               Count(ResultTrips, Connecting[k]) =
                   IF \/ NoTimeFilter
                      \/ OriginDeparture(Connecting[k]) = NoTime
                      \/ InBand(OriginDeparture(Connecting[k]))
                   THEN Count(Connecting, Connecting[k])
                   ELSE 0
        /\ \A k \in 1..Len(Results) : Count(Connecting, Results[k].schedule) > 0

\* 'morning' drops a connecting trip that leaves the origin at 14:30, after a
\* first stop elsewhere in the morning, and keeps one with no departure time
C7_Witness ==
    /\ SearchReachesFilter
    /\ criteria.timePreference = "morning"
    /\ \E k \in 1..Len(Connecting) :
           /\ OriginDeparture(Connecting[k]) = TimeText(14, 30)
           /\ Connecting[k].stops[1].station_id # criteria.originId
           /\ Connecting[k].stops[1].departure_time = TimeText(8, 0)
           /\ Count(ResultTrips, Connecting[k]) = 0
    /\ \E k \in 1..Len(Results) : OriginDeparture(Results[k].schedule) = NoTime

(* C8: a missing or empty originId or destinationId gives the empty        *)
(* sequence as a value, whether or not the data can be fetched; an id that *)
(* matches no station of the fetched collection gives the empty sequence,  *)
(* whatever schedules and fares exist.                                     *)
C8_MissingOrUnknownEmpty ==
    /\ (response.kind # "none" /\ (criteria.originId = "" \/ criteria.destinationId = ""))
           => (response.kind = "value" /\ Results = <<>>)
    /\ (Delivered /\ (~StationKnown(criteria.originId) \/ ~StationKnown(criteria.destinationId)))
           => Results = <<>>

\* an unknown origin with a trip to a known destination and their fare row
C8_Witness ==
    /\ Delivered
    /\ criteria.originId # ""
    /\ ~StationKnown(criteria.originId)
    /\ StationKnown(criteria.destinationId)
    /\ FareRowExists(criteria.originId, criteria.destinationId)
    /\ \E k \in 1..Len(AllTrips) :
           VisitsInOrder(AllTrips[k], criteria.originId, criteria.destinationId)
    /\ Results = <<>>

\* the text of m minutes: "{h}h {r}min", "{h}h" or "{r}min"
DurationTextOf(m) ==
    IF m \div 60 > 0 /\ m % 60 > 0
    THEN NatText(m \div 60) \o <<"h", " ">> \o NatText(m % 60) \o <<"m", "i", "n">>
    ELSE IF m \div 60 > 0
    THEN NatText(m \div 60) \o <<"h">>
    ELSE NatText(m % 60) \o <<"m", "i", "n">>

(* C9: when the stop of the origin departs at d and the stop of the        *)
(* destination arrives at a >= d, the duration of the result is the text   *)
(* of a - d minutes (08:00 to 10:15 gives "2h 15min"); d and a are the     *)
(* times of the first stops at the requested stations, not of the first    *)
(* and last stop of the trip.                                              *)
C9_DurationIsDifference ==
    Delivered =>
        \A k \in 1..Len(Results) :
            LET d == OriginDeparture(Results[k].schedule)
                a == DestinationArrival(Results[k].schedule)
            IN  /\ (d # NoTime /\ a # NoTime /\ MinutesOf(a) >= MinutesOf(d)) =>
                       Results[k].duration = DurationTextOf(MinutesOf(a) - MinutesOf(d))
                /\ (d = TimeText(8, 0) /\ a = TimeText(10, 15)) =>
                       Results[k].duration = <<"2", "h", " ", "1", "5", "m", "i", "n">>

\* a trip of four stops, S1 second and S2 third, 08:00 to 10:15
C9_Witness ==
    /\ Delivered
    /\ \E k \in 1..Len(Results) :
           /\ Len(Results[k].schedule.stops) = 4
           /\ Results[k].schedule.stops[1].station_id # criteria.originId
           /\ Results[k].schedule.stops[4].station_id # criteria.destinationId
           /\ OriginDeparture(Results[k].schedule) = TimeText(8, 0)
           /\ DestinationArrival(Results[k].schedule) = TimeText(10, 15)
           /\ Results[k].duration = <<"2", "h", " ", "1", "5", "m", "i", "n">>

(* C10: when the destination stop arrives earlier in the day than the      *)
(* origin stop departs, the duration is 'N/A', and the trip is still in    *)
(* the response (stated without a time filter).                            *)
C10_EarlierArrivalNotAvailable ==
    /\ Delivered =>
           \A k \in 1..Len(Results) :
               LET d == OriginDeparture(Results[k].schedule)
                   a == DestinationArrival(Results[k].schedule)
               IN  (d # NoTime /\ a # NoTime /\ MinutesOf(a) < MinutesOf(d)) =>
                       Results[k].duration = NA
    /\ (SearchReachesFilter /\ NoTimeFilter) =>
           \A k \in 1..Len(Connecting) :
               Count(ResultTrips, Connecting[k]) = Count(Connecting, Connecting[k])

\* a returned trip that leaves the origin at 14:30 and reaches the
\* destination at 10:15
C10_Witness ==
    /\ Delivered
    /\ \E k \in 1..Len(Results) :
           /\ OriginDeparture(Results[k].schedule) = TimeText(14, 30)
           /\ DestinationArrival(Results[k].schedule) = TimeText(10, 15)
           /\ Results[k].duration = NA

-----------------------------------------------------------------------------
(* Duration texts and statistics (StatsSpec)                               *)

Formatted == formatted.kind = "value"

Aggregated == statistics.kind = "value"

Stats == statistics.value

(* C11: for m minutes with h = m div 60 and r = m mod 60 the duration text *)
(* is "{h}h {r}min" when h > 0 and r > 0, "{h}h" when h > 0 and r = 0, and *)
(* "{r}min" when h = 0 (95 gives "1h 35min", 60 "1h", 45 "45min", 0        *)
(* "0min"); calculateTripDuration and formatDuration give the same text    *)
(* for the same m.                                                         *)
C11_DurationText ==
    Formatted =>
        /\ formatted.service = DurationTextOf(totalMinutes)
        /\ formatted.trip = formatted.service
        /\ totalMinutes = 95 =>
               formatted.service = <<"1", "h", " ", "3", "5", "m", "i", "n">>
        /\ totalMinutes = 60 => formatted.service = <<"1", "h">>
        /\ totalMinutes = 45 => formatted.service = <<"4", "5", "m", "i", "n">>
        /\ totalMinutes = 0 => formatted.service = <<"0", "m", "i", "n">>

\* both formatters have printed 120 minutes as "2h"
C11_Witness ==
    /\ Formatted
    /\ totalMinutes = 120
    /\ formatted.service = <<"2", "h">>
    /\ formatted.trip = <<"2", "h">>

(* C12: getSearchStatistics of the empty list is totalRoutes 0,            *)
(* averageDuration "0min", priceRange {0, 0} and timeDistribution          *)
(* {0, 0, 0}: no NaN, no Infinity.                                         *)
C12_EmptyListStatistics ==
    (Aggregated /\ resultList = <<>>) =>
        Stats = [totalRoutes      |-> 0,
                 averageDuration  |-> <<"0", "m", "i", "n">>,
                 priceRange       |-> [min |-> 0, max |-> 0],
                 timeDistribution |-> [morning |-> 0, afternoon |-> 0, evening |-> 0]]

\* the statistics of the empty list have been computed
C12_Witness ==
    /\ Aggregated
    /\ resultList = <<>>
    /\ Stats.totalRoutes = 0

\* the departure from the first stop at the origin of a result and the
\* arrival at the first stop at its destination
ResultDeparture(result) ==
    IF Visits(result.schedule, result.origin.id)
    THEN FirstStopAt(result.schedule, result.origin.id).departure_time ELSE NoTime

ResultArrival(result) ==
    IF Visits(result.schedule, result.destination.id)
    THEN FirstStopAt(result.schedule, result.destination.id).arrival_time ELSE NoTime

\* the duration of a result in minutes, 0 when it has none ('N/A')
DefinedMinutes(result) ==
    IF result.duration = NA \/ result.duration = <<>> THEN 0
    ELSE MinutesOf(ResultArrival(result)) - MinutesOf(ResultDeparture(result))

SumOfMinutes(list) ==
    LET f[k \in 0..Len(list)] ==
            IF k = 0 THEN 0 ELSE f[k - 1] + DefinedMinutes(list[k])
    IN  f[Len(list)]

\* s / n rounded to the nearest integer, halves up
Rounded(s, n) == CHOOSE r \in 0..s : 2 * n * r - n <= 2 * s /\ 2 * s < 2 * n * r + n

(* C13: for a non-empty list the averageDuration is the text of            *)
(* round(S / N), S the sum of the minutes of the results that have a       *)
(* duration and N the number of all results, those without a duration      *)
(* included.                                                               *)
C13_AverageOverAllResults ==
    (Aggregated /\ Len(resultList) > 0) =>
        Stats.averageDuration =
            DurationTextOf(Rounded(SumOfMinutes(resultList), Len(resultList)))

\* a result of 1h 35min and one without a duration average to 47.5,
\* printed as "48min"
C13_Witness ==
    /\ Aggregated
    /\ Len(resultList) = 2
    /\ \E i, j \in 1..2 : /\ resultList[i].duration = NA
                          /\ resultList[j].duration = <<"1", "h", " ", "3", "5", "m", "i", "n">>
    /\ Stats.averageDuration = <<"4", "8", "m", "i", "n">>

ThirdClassPrices == {resultList[k].price.third_class : k \in 1..Len(resultList)}

(* C14: for a non-empty list priceRange.min is the minimum and             *)
(* priceRange.max the maximum of price.third_class over all results, so    *)
(* min <= max; the first and second class take no part.                    *)
C14_ThirdClassRange ==
    (Aggregated /\ Len(resultList) > 0) =>
        /\ Stats.priceRange.min \in ThirdClassPrices
        /\ \A p \in ThirdClassPrices : Stats.priceRange.min <= p
        /\ Stats.priceRange.max \in ThirdClassPrices
        /\ \A p \in ThirdClassPrices : p <= Stats.priceRange.max
        /\ Stats.priceRange.min <= Stats.priceRange.max

\* two results whose third class costs 100 and 250, while the second class
\* of the dearer one is the cheaper
C14_Witness ==
    /\ Aggregated
    /\ Len(resultList) = 2
    /\ resultList[1].price.third_class = 250
    /\ resultList[2].price.third_class = 100
    /\ resultList[1].price.second_class < resultList[2].price.second_class
    /\ Stats.priceRange = [min |-> 100, max |-> 250]

\* the results of the list that leave their origin stop at an hour h with
\* from <= h < to
DepartingIn(from, to) ==
    Cardinality({k \in 1..Len(resultList) :
                    /\ ResultDeparture(resultList[k]) # NoTime
                    /\ HourOf(ResultDeparture(resultList[k])) >= from
                    /\ HourOf(ResultDeparture(resultList[k])) < to})

(* C15: the timeDistribution counts, for each band, the results whose      *)
(* departure hour at the origin stop of the search is in the band: morning *)
(* [6,12), afternoon [12,18), evening up to the bound of the search        *)
(* filter.                                                                 *)
C15_DistributionByOriginDeparture ==
    Aggregated =>
        /\ Stats.timeDistribution.morning = DepartingIn(MorningStart, MorningEnd)
        /\ Stats.timeDistribution.afternoon = DepartingIn(AfternoonStart, AfternoonEnd)
        /\ Stats.timeDistribution.evening = DepartingIn(EveningStart, EveningEnd)

-----------------------------------------------------------------------------
(* The results and the inputs of a search (Spec)                           *)

(* C16: every result of searchWithCriteria(A, B, filters) has the station  *)
(* record of id A as origin, the station record of id B as destination,    *)
(* and as price the price triplet of a fare row with origin A and          *)
(* destination B; the results of one response carry the same origin,       *)
(* destination and price.                                                  *)
C16_ResultsCarryTheSearchedPair ==
    Delivered =>
        /\ \A k \in 1..Len(Results) :
              /\ Results[k].origin.id = criteria.originId
              /\ \E i \in 1..Len(stations) : Results[k].origin = stations[i]
              /\ Results[k].destination.id = criteria.destinationId
              /\ \E i \in 1..Len(stations) : Results[k].destination = stations[i]
              /\ \E j \in 1..Len(prices) :
                     /\ prices[j].origin_station_id = criteria.originId
                     /\ prices[j].destination_station_id = criteria.destinationId
                     /\ Results[k].price = prices[j].prices
        /\ \A k, l \in 1..Len(Results) :
              /\ Results[k].origin = Results[l].origin
              /\ Results[k].destination = Results[l].destination
              /\ Results[k].price = Results[l].price

\* two results from S1 to S2 out of a fare table that also holds the rows
\* (S1,S1) and (S2,S1)
C16_Witness ==
    /\ Delivered
    /\ Len(Results) = 2
    /\ criteria.originId = "S1"
    /\ criteria.destinationId = "S2"
    /\ FareRowExists("S1", "S1")
    /\ FareRowExists("S2", "S1")
    /\ Results[2].price = Fare("S1", "S2").prices

-----------------------------------------------------------------------------
(* The views and their fetches (ViewSpec)                                  *)

(* C18: in each view a failed fetch is not fatal: once it has been         *)
(* reported (and, in the search view, no request is in flight any more)    *)
(* the loading flag is false and the collection the view displays is       *)
(* empty: searchResults, allStationsData and filteredStations,             *)
(* pricesDisplay, schedulesByDirection. No view holds an error field (the  *)
(* handlers log the error), so this state is what the page shows of the    *)
(* failure.                                                                *)
C18_FailedFetchLeavesEmptyView ==
    /\ (searchView.lastFetch = "failed" /\ searchView.inFlight = <<>>) =>
           (~searchView.loading /\ searchView.searchResults = <<>>)
    /\ stationsView.lastFetch = "failed" =>
           /\ ~stationsView.loading
           /\ stationsView.allStationsData = <<>>
           /\ stationsView.filteredStations = <<>>
    /\ pricesView.lastFetch = "failed" =>
           (~pricesView.loading /\ pricesView.pricesDisplay = <<>>)
    /\ schedulesView.lastFetch = "failed" =>
           (~schedulesView.loading /\ schedulesView.schedulesByDirection = NoSchedules)

(* C19: once a view is torn down, a response that arrives afterwards       *)
(* changes neither its loading flag nor the collections it displays.       *)
C19_TornDownViewIgnoresResponse ==
    [][/\ searchView.phase = "destroyed" =>
              /\ searchView'.loading = searchView.loading
              /\ searchView'.searchResults = searchView.searchResults
              /\ searchView'.searchPerformed = searchView.searchPerformed
       /\ stationsView.phase = "destroyed" =>
              /\ stationsView'.loading = stationsView.loading
              /\ stationsView'.allStationsData = stationsView.allStationsData
              /\ stationsView'.filteredStations = stationsView.filteredStations
       /\ pricesView.phase = "destroyed" =>
              /\ pricesView'.loading = pricesView.loading
              /\ pricesView'.pricesDisplay = pricesView.pricesDisplay
       /\ schedulesView.phase = "destroyed" =>
              /\ schedulesView'.loading = schedulesView.loading
              /\ schedulesView'.schedulesByDirection = schedulesView.schedulesByDirection
      ]_vars

-----------------------------------------------------------------------------
(* The two filters (Spec)                                                  *)

\* the results of the search before the time filter
Unfiltered ==
    searchResults(stations, schedules, prices, [criteria EXCEPT !.timePreference = "any"])

(* C20: the two implementations differ only in the evening band: on a      *)
(* result that leaves the origin at hour h, matchesCriteria keeps it under *)
(* 'evening' exactly when 18 <= h < 22 and filterByCriteria of the         *)
(* duplicate exactly when 18 <= h < 24; under 'morning', 'afternoon' and   *)
(* 'any' (or no preference) both keep the same results.                    *)
C20_FiltersDifferOnlyInEvening ==
    SearchReachesFilter =>
        \A k \in 1..Len(Unfiltered) :
            LET h == HourOf(OriginDeparture(Unfiltered[k].schedule))
            IN  IF criteria.timePreference = "evening"
                THEN OriginDeparture(Unfiltered[k].schedule) # NoTime =>
                         /\ matchesCriteria(Unfiltered[k], criteria) <=> (18 <= h /\ h < 22)
                         /\ filterByCriteria(Unfiltered[k], criteria) <=> (18 <= h /\ h < 24)
                ELSE matchesCriteria(Unfiltered[k], criteria) =
                         filterByCriteria(Unfiltered[k], criteria)

-----------------------------------------------------------------------------
(* The search view and its requests (ViewSpec)                             *)

\* the criteria object the form of the search view is bound to
FormCriteria == searchView.heap[searchView.searchCriteria]

(* C23: in SearchComponent, whatever the order of the performSearch calls  *)
(* and of the responses: while a request is in flight loading is true;     *)
(* when none is in flight loading is false and, the most recently issued   *)
(* search having answered, searchResults are the results it delivered.     *)
C23_LatestSearchShown ==
    searchView.phase = "active" =>
        /\ searchView.inFlight # <<>> => searchView.loading
        /\ searchView.inFlight = <<>> =>
               /\ ~searchView.loading
               /\ searchView.latest.kind = "ok" =>
                      searchView.searchResults = searchView.latest.results

(* C24: resetSearch leaves searchResults = [], searchPerformed = false and *)
(* an empty origin and destination; searchResults and searchPerformed stay *)
(* so until the next search is issued, also when the response of a search  *)
(* started before the reset arrives after it.                              *)
C24_ResetStateStays ==
    [][/\ (searchView.phase = "active" /\ searchView' = resetSearch(searchView)) =>
              /\ searchView'.heap[searchView'.searchCriteria].originId = ""
              /\ searchView'.heap[searchView'.searchCriteria].destinationId = ""
       /\ searchView'.afterReset =>
              /\ searchView'.searchResults = <<>>
              /\ ~searchView'.searchPerformed
      ]_vars

(* C25: the criteria the results of a request are computed from are those  *)
(* of the performSearch call: no step that leaves the request in flight    *)
(* (an edit of originId, destinationId or timePreference, swapStations,    *)
(* resetSearch) changes the origin, destination and time preference its    *)
(* response will be computed for.                                          *)
C25_CriteriaAsAtCall ==
    [][searchView'.inFlight = searchView.inFlight =>
           \A k \in 1..Len(searchView.inFlight) :
               criteriaRead(searchView', k) = criteriaRead(searchView, k)
      ]_vars

(* C26: performSearch with invalid criteria (origin empty, destination     *)
(* empty, or origin = destination) issues no request and leaves loading,   *)
(* searchResults and searchPerformed as they were.                         *)
C26_InvalidSearchIsNoOp ==
    [][(/\ searchView.phase = "active"
        /\ ~isSearchValid(FormCriteria)
        /\ searchView' = performSearch(searchView)) =>
           /\ searchView'.inFlight = searchView.inFlight
           /\ searchView'.loading = searchView.loading
           /\ searchView'.searchResults = searchView.searchResults
           /\ searchView'.searchPerformed = searchView.searchPerformed
      ]_vars

\* results are shown, the origin has been set equal to the destination,
\* and performSearch returns the view as it is
C26_Witness ==
    /\ searchView.phase = "active"
    /\ searchView.searchPerformed
    /\ searchView.searchResults # <<>>
    /\ FormCriteria.originId = "S2"
    /\ FormCriteria.destinationId = "S2"
    /\ performSearch(searchView) = searchView

-----------------------------------------------------------------------------
(* Results without a departure time (Spec)                                 *)

\* the departure time t is outside the band of the time preference of the
\* call
OutsideBand(t) ==
    CASE criteria.timePreference = "morning" ->
             HourOf(t) < MorningStart \/ HourOf(t) >= MorningEnd
      [] criteria.timePreference = "afternoon" ->
             HourOf(t) < AfternoonStart \/ HourOf(t) >= AfternoonEnd
      [] criteria.timePreference = "evening" ->
             HourOf(t) < EveningStart \/ HourOf(t) >= EveningEnd
      [] OTHER -> FALSE

(* C27: a connecting schedule whose origin stop has no departure time is   *)
(* kept under every timePreference (morning, afternoon, evening, any), and *)
(* every connecting schedule the search drops has a departure time at the  *)
(* origin outside the band.                                                *)
C27_NoDepartureKept ==
    SearchReachesFilter =>
        \A k \in 1..Len(Connecting) :
            /\ OriginDeparture(Connecting[k]) = NoTime =>
                   Count(ResultTrips, Connecting[k]) = Count(Connecting, Connecting[k])
            /\ Count(ResultTrips, Connecting[k]) = 0 =>
                   /\ OriginDeparture(Connecting[k]) # NoTime
                   /\ OutsideBand(OriginDeparture(Connecting[k]))

\* under 'evening' a trip is returned that has no departure time at the
\* origin and leaves its first stop, another station, at 09:00
C27_Witness ==
    /\ SearchReachesFilter
    /\ criteria.timePreference = "evening"
    /\ Len(Results) = 1
    /\ OriginDeparture(Results[1].schedule) = NoTime
    /\ Results[1].schedule.stops[1].station_id # criteria.originId
    /\ Results[1].schedule.stops[1].departure_time = TimeText(9, 0)

-----------------------------------------------------------------------------
(* The round trip of the duration text (StatsSpec)                         *)

\* every result of the list has the duration text d
AllTake(d) == \A k \in 1..Len(resultList) : resultList[k].duration = d

(* C30: parseDurationToMinutes(formatDuration(m)) = m for every m >= 0,    *)
(* and getSearchStatistics of a non-empty list of results that all have    *)
(* the same duration text D, a text of calculateTripDuration other than    *)
(* 'N/A', returns averageDuration = D.                                     *)
C30_DurationRoundTrip ==
    /\ Formatted => formatted.minutes = totalMinutes
    /\ (Aggregated /\ Len(resultList) > 0 /\ resultList[1].duration # NA
           /\ AllTake(resultList[1].duration)) =>
           Stats.averageDuration = resultList[1].duration

\* 95 minutes have been printed and read back, and three results of
\* "1h 35min" average to "1h 35min"
C30_Witness ==
    /\ Formatted
    /\ totalMinutes = 95
    /\ formatted.minutes = 95
    /\ Aggregated
    /\ Len(resultList) = 3
    /\ AllTake(<<"1", "h", " ", "3", "5", "m", "i", "n">>)
    /\ Stats.averageDuration = <<"1", "h", " ", "3", "5", "m", "i", "n">>

-----------------------------------------------------------------------------
(* The categories of the schedules view (SchedulesSpec)                    *)

\* the schedules of the lines of the lines file, as the view received them
Displays ==
    allScheduleDisplays(viewFiles.schedules, viewFiles.lines, viewFiles.stations)

Categories == schedulesView.schedulesByDirection

\* how often the display d is listed in the three categories together
Placed(d) ==
    Count(Categories.south, d) + Count(Categories.north, d) + Count(Categories.islands, d)

\* the list is in ascending order of the departure time of the first stop
\* (a first stop without departure time counts as 00:00)
AscendingByTime(list) ==
    \A k \in 1..(Len(list) - 1) :
        ~LexLess(displayTime(list[k + 1]), displayTime(list[k]))

(* C28: in SchedulesComponent, after a successful fetch every schedule of  *)
(* a known line is in exactly one of south, north and islands, whatever    *)
(* its direction (northbound, southbound, outbound, inbound, from-... or  *)
(* to-...) and whether or not its line serves an island; none is in two    *)
(* categories, and each category is in ascending order of the departure    *)
(* time of the first stop.                                                 *)
C28_ExactlyOneCategory ==
    schedulesView.lastFetch = "ok" =>
        /\ \A k \in 1..Len(Displays) : Placed(Displays[k]) = Count(Displays, Displays[k])
        /\ \A k \in 1..Len(Categories.south) :
               /\ Count(Categories.north, Categories.south[k]) = 0
               /\ Count(Categories.islands, Categories.south[k]) = 0
        /\ \A k \in 1..Len(Categories.north) :
               Count(Categories.islands, Categories.north[k]) = 0
        /\ AscendingByTime(Categories.south)
        /\ AscendingByTime(Categories.north)
        /\ AscendingByTime(Categories.islands)

-----------------------------------------------------------------------------
(* The suggested destinations (PopularSpec)                                *)

Suggested == popularDestinations.service.list

SuggestedDuplicate == popularDestinations.duplicate.list

\* a list of at most five stations of the stations file, none of them the
\* origin, no two with the same id
WellFormedSuggestions(list) ==
    /\ Len(list) <= SuggestionLimit
    /\ \A k \in 1..Len(list) :
          /\ list[k].id # destinationsQuery.originId
          /\ \E i \in 1..Len(destinationsQuery.stations) : destinationsQuery.stations[i] = list[k]
    /\ \A k, l \in 1..Len(list) : list[k].id = list[l].id => k = l

(* C29: getPopularDestinations returns at most five stations, never the    *)
(* origin, no two with the same id, all of them stations of the stations   *)
(* file, also when lines share stations or a line lists an id more than    *)
(* once; and search.service.ts and 'search.service 2.ts' return the same   *)
(* list.                                                                   *)
C29_PopularDestinations ==
    /\ popularDestinations.service.kind = "ok" => WellFormedSuggestions(Suggested)
    /\ popularDestinations.duplicate.kind = "ok" => WellFormedSuggestions(SuggestedDuplicate)
    /\ (popularDestinations.service.kind = "ok" /\ popularDestinations.duplicate.kind = "ok") =>
           Suggested = SuggestedDuplicate

-----------------------------------------------------------------------------
(* Distances (DistanceSpec)                                                *)

SamePoint == points.lat1 = points.lat2 /\ points.lon1 = points.lon2

AllCalculated ==
    distance.utils.kind = "ok" /\ distance.search.kind = "ok" /\ distance.prices.kind = "ok"

(* C21: the distance from a point to itself is exactly 0 in                *)
(* UtilsService.calculateDistance, SearchService.calculateDistance and     *)
(* PricesComponent.calculateDistance, with the rounding to one decimal and *)
(* with the rounding to a whole number.                                    *)
C21_DistanceToItselfIsZero ==
    SamePoint =>
        /\ distance.utils.kind = "ok" => distance.utils.value = 0
        /\ distance.search.kind = "ok" => distance.search.value = 0
        /\ distance.prices.kind = "ok" => distance.prices.value = 0

C21_Witness ==
    /\ AllCalculated
    /\ points = [lat1 |-> -222, lon1 |-> 1664, lat2 |-> -222, lon2 |-> 1664]
    /\ distance.utils.value = 0 /\ distance.search.value = 0 /\ distance.prices.value = 0

\* S1 at (-22.2, 166.4) and S2 at (-20.9, 167.0)
Scenario == points = [lat1 |-> -222, lon1 |-> 1664, lat2 |-> -209, lon2 |-> 1670]

\* the implementations of UtilsService and SearchService return a distance
\* within 1 km of km kilometres
WithinOneOf(km) ==
    /\ distance.utils.kind = "ok" =>
          (distance.utils.value >= (km - 1) * 10 /\ distance.utils.value <= (km + 1) * 10)
    /\ distance.search.kind = "ok" =>
          (distance.search.value >= km - 1 /\ distance.search.value <= km + 1)

(* C22: for S1 at (-22.2, 166.4) and S2 at (-20.9, 167.0) the haversine    *)
(* distance with R = 6371 that calculateDistance returns is within 1 km of *)
(* 152 km.                                                                 *)
C22_ScenarioNear152 == Scenario => WithinOneOf(152)

(* C22, amended: for these two points calculateDistance returns a          *)
(* distance within 1 km of 157 km (157 in SearchService, 157.3 in          *)
(* UtilsService).                                                          *)
C22_ScenarioNear157 ==
    Scenario =>
        /\ WithinOneOf(157)
        /\ distance.utils.kind = "ok" => distance.utils.value = 1573
        /\ distance.search.kind = "ok" => distance.search.value = 157

C22_Witness ==
    /\ Scenario
    /\ AllCalculated
    /\ distance.utils.value = 1573
    /\ distance.search.value = 157

====
